---- MODULE Spec2Model ----
(***************************************************************************)
(* Model of the Thread Intelligence Engine of outlook_threads:             *)
(*   thread_summarizer.py  ThreadSummarizer (priority, insights, triage,   *)
(*                         due dates, extractive summary, MMR)             *)
(*   nlp_analyzer.py       NLPAnalyzer._calculate_urgency                  *)
(* Python str values are TLA+ strings handled character by character      *)
(* (Len, SubSeq, \o); datetime values are whole hours since the proleptic  *)
(* Gregorian day 0 (ordinal * 24 + hour), so that timedelta.days is a      *)
(* floor division by 24 and weekday() is (ordinal + 6) % 7.                *)
(***************************************************************************)
EXTENDS Integers, Sequences, FiniteSets, TLC

VARIABLES
    thread_emails,   \* argument of summarize_thread: the list of email dicts
    metadata,        \* argument of summarize_thread: the metadata dict
    use_ai,          \* ThreadSummarizer.use_ai
    summarizer,      \* ThreadSummarizer.summarizer: "None" or "pipeline"
    now,             \* the wall clock read by datetime.now()
    calls,           \* the calls of summarize_thread made so far, with what each returned
    urgency_text,    \* argument of NLPAnalyzer._calculate_urgency
    urgency,         \* what _calculate_urgency returned
    due_text,        \* arguments of ThreadSummarizer._parse_due_date
    due_base,
    due,             \* what _parse_due_date returned
    mmr,             \* arguments of ThreadSummarizer._mmr_select and what it returned
    extracted,       \* what ThreadSummarizer._extractive_summary returned for thread_emails
    stats,           \* TransportThreadManager.stats
    batch,           \* the threads that run or run_existing_threads iterates over
    position,        \* the index in batch of the next thread of the loop
    mode,            \* the method of TransportThreadManager that is running, or "idle"
    process_threads, \* argument of TransportThreadManager.run
    attempted,       \* the threads that the loop of the running method has handled so far
    runs,            \* the calls of run and run_existing_threads that have returned
    construction,    \* the argument and the environment of ThreadSummarizer.__init__
    pending,         \* the call of summarize_thread that has not returned yet
    triage,          \* arguments of ThreadSummarizer._build_triage and what it returned
    analyzer_instance, \* nlp_analyzer._analyzer_instance
    analyzers,       \* the NLPAnalyzer objects constructed so far
    backend_globals, \* nlp_analyzer._spacy_nlp, _vader_analyzer, _keybert_model, _email_reply_parser
    backend_loads,   \* how often each backend has been initialised
    callers          \* the threads that call get_nlp_analyzer and _ensure_initialized

manager_vars == <<stats, batch, position, mode, process_threads, attempted, runs, construction>>

nlp_vars == <<analyzer_instance, analyzers, backend_globals, backend_loads, callers>>

vars == <<thread_emails, metadata, use_ai, summarizer, now, calls,
          urgency_text, urgency, due_text, due_base, due, mmr, extracted, manager_vars,
          pending, triage, nlp_vars>>

\* None where a str is expected
None == "None"

\* None where a datetime is expected (every datetime is positive)
NoneDt == 0 - 1

\* an argument variable of a function that is not called, and its result
\* variable before the call
NotCalled == "NotCalled"
NoResult == [called |-> FALSE]

Min(a, b) == IF a < b THEN a ELSE b
Max(a, b) == IF a > b THEN a ELSE b

RECURSIVE SumSeq(_)
SumSeq(s) == IF s = <<>> THEN 0 ELSE Head(s) + SumSeq(Tail(s))

(***************************************************************************)
(* Python str operations.                                                  *)
(***************************************************************************)
At(s, i) == SubSeq(s, i, i)

\* s[lo-1:hi]: a slice stops at the end of the string
Slice(s, lo, hi) == SubSeq(s, lo, IF hi < Len(s) THEN hi ELSE Len(s))

UpperLetters == "ABCDEFGHIJKLMNOPQRSTUVWXYZ"
LowerLetters == "abcdefghijklmnopqrstuvwxyz"
Digits == "0123456789"

\* the characters of s
Chars(s) == {At(s, i) : i \in 1..Len(s)}

UpperChars == Chars(UpperLetters)
LowerChars == Chars(LowerLetters)
DigitChars == Chars(Digits)

IndexIn(c, s) == CHOOSE i \in 1..Len(s) : At(s, i) = c

LowerOf == [c \in UpperChars |-> At(LowerLetters, IndexIn(c, UpperLetters))]

LowerChar(c) == IF c \in UpperChars THEN LowerOf[c] ELSE c

\* "".join(parts), joined by halves so that long texts nest shallowly
RECURSIVE Concat(_)
Concat(parts) ==
    IF parts = <<>> THEN ""
    ELSE IF Len(parts) = 1 THEN parts[1]
    ELSE LET h == Len(parts) \div 2
         IN  Concat(SubSeq(parts, 1, h)) \o Concat(SubSeq(parts, h + 1, Len(parts)))

\* str.lower()
Lower(s) == Concat([i \in 1..Len(s) |-> LowerChar(At(s, i))])

\* k in s
Contains(s, k) == \E i \in 1..(Len(s) - Len(k) + 1) : SubSeq(s, i, i + Len(k) - 1) = k

\* s.find(k), 1-based; 0 when absent
Find(s, k) ==
    LET at == {i \in 1..(Len(s) - Len(k) + 1) : SubSeq(s, i, i + Len(k) - 1) = k}
    IN  IF at = {} THEN 0 ELSE CHOOSE i \in at : \A j \in at : i <= j

\* s.count(c), for a one-character c
Count(s, c) == Cardinality({i \in 1..Len(s) : At(s, i) = c})

IsSpace(c) == c \in {" ", "\n", "\t", "\r"}

\* s.strip()
Strip(s) ==
    LET keep == {i \in 1..Len(s) : ~IsSpace(At(s, i))}
    IN  IF keep = {} THEN ""
        ELSE LET lo == CHOOSE i \in keep : \A j \in keep : i <= j
                 hi == CHOOSE i \in keep : \A j \in keep : j <= i
             IN  SubSeq(s, lo, hi)

\* s.split(sep), for a one-character sep
RECURSIVE Split(_, _)
Split(s, sep) ==
    LET i == Find(s, sep)
    IN  IF i = 0 THEN <<s>>
        ELSE <<SubSeq(s, 1, i - 1)>> \o Split(SubSeq(s, i + 1, Len(s)), sep)

\* s[:n]
Prefix(s, n) == SubSeq(s, 1, Min(n, Len(s)))

\* re: \w
IsWordChar(c) == c \in UpperChars \/ c \in LowerChars \/ c \in DigitChars \/ c = "_"

\* re: \b at the position between s[i] and s[i+1] (i = 0 .. Len(s))
WordBoundary(s, i) ==
    LET before == i >= 1 /\ IsWordChar(At(s, i))
        after == i < Len(s) /\ IsWordChar(At(s, i + 1))
    IN  before # after

(***************************************************************************)
(* nlp_analyzer.py: NLPAnalyzer._calculate_urgency                         *)
(***************************************************************************)
Kw(k, w) == [keyword |-> k, weight |-> w]

\* the dict urgent_keywords, in insertion order
urgent_keywords ==
    << Kw("asap", 10), Kw("urgent", 10), Kw("immediately", 10), Kw("emergency", 10),
       Kw("critical", 9), Kw("important", 7), Kw("priority", 7), Kw("deadline", 8),
       Kw("today", 6), Kw("tonight", 6), Kw("eod", 8), Kw("end of day", 8),
       Kw("tomorrow", 5), Kw("by monday", 5), Kw("by friday", 4),
       Kw("please confirm", 4), Kw("need your", 5), Kw("waiting for", 5),
       Kw("overdue", 9), Kw("past due", 9), Kw("late", 6), Kw("delayed", 6),
       Kw("escalate", 8), Kw("escalation", 8) >>

\* the high-impact keywords without 'emergency'
high_impact_without_emergency == {"asap", "urgent", "immediately", "critical"}

high_impact == {"asap", "urgent", "immediately", "critical", "emergency"}

\* len(re.findall(r'\b[A-Z]{3,}\b', text)): the maximal runs of word characters
\* that are three or more capital letters and nothing else
caps_words(text) ==
    Cardinality({ i \in 1..Len(text) :
        /\ WordBoundary(text, i - 1)
        /\ \E j \in (i + 2)..Len(text) :
              /\ \A m \in i..j : At(text, m) \in UpperChars
              /\ WordBoundary(text, j) })

\* "Normalize to 0-100"
urgency_normalized_score(score) == Min(score, 100)

\* "Determine level"
urgency_level(normalized_score) ==
    IF normalized_score >= 70 THEN "critical"
    ELSE IF normalized_score >= 50 THEN "high"
    ELSE IF normalized_score >= 30 THEN "medium"
    ELSE "low"

_calculate_urgency(text) ==
    LET text_lower == Lower(text)
        matched == SelectSeq(urgent_keywords, LAMBDA e : Contains(text_lower, e.keyword))
        kwScore == SumSeq([i \in 1..Len(matched) |-> matched[i].weight])
        exclScore == Min(Count(text, "!") * 3, 15)
        capsScore == Min(caps_words(text) * 3, 15)
        found_high_impact == Cardinality({w \in high_impact : Contains(text_lower, w)})
        synergy == IF found_high_impact >= 2 THEN 15
                   ELSE IF found_high_impact = 1 THEN 5 ELSE 0
        score == kwScore + exclScore + capsScore + synergy
        normalized_score == urgency_normalized_score(score)
    IN  [ score |-> normalized_score,
          level |-> urgency_level(normalized_score),
          keywords_found |-> [i \in 1..Len(matched) |-> matched[i].keyword] ]

(***************************************************************************)
(* datetime: a value is ordinal * 24 + hour (whole hours), the ordinal     *)
(* being date.toordinal() of the proleptic Gregorian calendar.             *)
(***************************************************************************)
HoursPerDay == 24

IsLeap(y) == (y % 4 = 0) /\ ((y % 100 # 0) \/ (y % 400 = 0))

DaysInMonth(y, m) ==
    IF m = 2 THEN (IF IsLeap(y) THEN 29 ELSE 28)
    ELSE IF m \in {4, 6, 9, 11} THEN 30 ELSE 31

DaysBeforeYear(y) == (y - 1) * 365 + ((y - 1) \div 4) - ((y - 1) \div 100) + ((y - 1) \div 400)

RECURSIVE DaysBeforeMonth(_, _)
DaysBeforeMonth(y, m) == IF m = 1 THEN 0 ELSE DaysBeforeMonth(y, m - 1) + DaysInMonth(y, m - 1)

\* datetime(y, m, d, ...) raises ValueError outside these ranges
ValidDate(y, m, d) == y \in 1..9999 /\ m \in 1..12 /\ d \in 1..DaysInMonth(y, m)

Ordinal(y, m, d) == DaysBeforeYear(y) + DaysBeforeMonth(y, m) + d

\* datetime(y, m, d, h, 0)
DateTime(y, m, d, h) == Ordinal(y, m, d) * HoursPerDay + h

OrdinalOf(dt) == dt \div HoursPerDay
HourOf(dt) == dt % HoursPerDay

\* dt.year
YearOf(dt) ==
    LET o == OrdinalOf(dt)
    IN  CHOOSE y \in ((o \div 366) + 1)..((o \div 365) + 1) :
            DaysBeforeYear(y) < o /\ o <= DaysBeforeYear(y + 1)

\* dt.weekday(): Monday is 0
Weekday(dt) == (OrdinalOf(dt) + 6) % 7

\* (a - b).days
DaysBetween(a, b) == (a - b) \div HoursPerDay

\* dt + timedelta(days=n)
PlusDays(dt, n) == dt + n * HoursPerDay

(***************************************************************************)
(* thread_summarizer.py: ThreadSummarizer._parse_due_date                  *)
(***************************************************************************)
IsDigit(c) == c \in DigitChars

AllDigits(s, i, n) == i + n - 1 <= Len(s) /\ \A m \in i..(i + n - 1) : IsDigit(At(s, m))

\* int(s) of a string of digits
RECURSIVE ToInt(_)
ToInt(s) == IF s = "" THEN 0
            ELSE ToInt(SubSeq(s, 1, Len(s) - 1)) * 10 + (IndexIn(At(s, Len(s)), Digits) - 1)

IsDateSep(c) == c \in {".", "/", "-"}

NoMatch == [matched |-> FALSE]

\* r"\b(\d{1,2})[\./-](\d{1,2})(?:[\./-](\d{2,4}))?\b" tried at position i with
\* group lengths n1, n2 and n3 (n3 = 0: the optional group left out)
DmyMatchesAt(t, i, n1, n2, n3) ==
    LET p2 == i + n1 + 1
        p3 == p2 + n2 + 1
        e == IF n3 = 0 THEN p2 + n2 - 1 ELSE p3 + n3 - 1
    IN  /\ AllDigits(t, i, n1)
        /\ WordBoundary(t, i - 1)
        /\ i + n1 <= Len(t) /\ IsDateSep(At(t, i + n1))
        /\ AllDigits(t, p2, n2)
        /\ n3 > 0 => (p2 + n2 <= Len(t) /\ IsDateSep(At(t, p2 + n2)) /\ AllDigits(t, p3, n3))
        /\ WordBoundary(t, e)

\* the order in which the backtracking matcher tries the group lengths: greedy first
DmyChoices ==
    << <<2, 2, 4>>, <<2, 2, 3>>, <<2, 2, 2>>, <<2, 2, 0>>,
       <<2, 1, 4>>, <<2, 1, 3>>, <<2, 1, 2>>, <<2, 1, 0>>,
       <<1, 2, 4>>, <<1, 2, 3>>, <<1, 2, 2>>, <<1, 2, 0>>,
       <<1, 1, 4>>, <<1, 1, 3>>, <<1, 1, 2>>, <<1, 1, 0>> >>

\* re.search of the dd/mm[/yyyy] pattern: leftmost start, first choice that matches
DmySearch(t) ==
    LET ok(i, c) == DmyMatchesAt(t, i, DmyChoices[c][1], DmyChoices[c][2], DmyChoices[c][3])
        starts == {i \in 1..Len(t) : \E c \in 1..Len(DmyChoices) : ok(i, c)}
    IN  IF starts = {} THEN NoMatch
        ELSE LET i == CHOOSE x \in starts : \A z \in starts : x <= z
                 c == CHOOSE x \in 1..Len(DmyChoices) :
                          ok(i, x) /\ \A z \in 1..(x - 1) : ~ok(i, z)
                 n1 == DmyChoices[c][1]
                 n2 == DmyChoices[c][2]
                 n3 == DmyChoices[c][3]
             IN  [ matched |-> TRUE,
                   g1 |-> SubSeq(t, i, i + n1 - 1),
                   g2 |-> SubSeq(t, i + n1 + 1, i + n1 + n2),
                   g3 |-> IF n3 = 0 THEN None
                          ELSE SubSeq(t, i + n1 + n2 + 2, i + n1 + n2 + n3 + 1) ]

\* r"\b(20\d{2})-(\d{1,2})-(\d{1,2})\b" tried at position i with group lengths n2, n3
IsoMatchesAt(t, i, n2, n3) ==
    /\ i + 3 <= Len(t) /\ SubSeq(t, i, i + 1) = "20" /\ AllDigits(t, i + 2, 2)
    /\ WordBoundary(t, i - 1)
    /\ i + 4 <= Len(t) /\ At(t, i + 4) = "-"
    /\ AllDigits(t, i + 5, n2)
    /\ i + 5 + n2 <= Len(t) /\ At(t, i + 5 + n2) = "-"
    /\ AllDigits(t, i + 6 + n2, n3)
    /\ WordBoundary(t, i + 5 + n2 + n3)

IsoChoices == << <<2, 2>>, <<2, 1>>, <<1, 2>>, <<1, 1>> >>

\* re.search of the yyyy-mm-dd pattern
IsoSearch(t) ==
    LET ok(i, c) == IsoMatchesAt(t, i, IsoChoices[c][1], IsoChoices[c][2])
        starts == {i \in 1..Len(t) : \E c \in 1..Len(IsoChoices) : ok(i, c)}
    IN  IF starts = {} THEN NoMatch
        ELSE LET i == CHOOSE x \in starts : \A z \in starts : x <= z
                 c == CHOOSE x \in 1..Len(IsoChoices) :
                          ok(i, x) /\ \A z \in 1..(x - 1) : ~ok(i, z)
                 n2 == IsoChoices[c][1]
                 n3 == IsoChoices[c][2]
             IN  [ matched |-> TRUE,
                   g1 |-> SubSeq(t, i, i + 3),
                   g2 |-> SubSeq(t, i + 5, i + 4 + n2),
                   g3 |-> SubSeq(t, i + 6 + n2, i + 5 + n2 + n3) ]

weekdays == <<"monday", "tuesday", "wednesday", "thursday", "friday", "saturday", "sunday">>

\* "eod": today at 17:00 (the branch on base.hour > 17 replaces day by base.day: no change)
DueEod(base) == OrdinalOf(base) * HoursPerDay + 17

\* "tomorrow"
DueTomorrow(base) == PlusDays(base, 1)

\* the weekday loop: the first name of the list found in t decides
DueWeekday(t, base) ==
    LET found == {idx \in 1..Len(weekdays) : Contains(t, weekdays[idx])}
    IN  IF found = {} THEN NoneDt
        ELSE LET idx == (CHOOSE x \in found : \A z \in found : x <= z) - 1
                 delta0 == (idx - Weekday(base)) % 7
                 delta == IF delta0 = 0 THEN 7 ELSE delta0
             IN  PlusDays(base, delta)

\* datetime(y, mth, d, 17, 0) as a list of one, or of none where it raises
date_at_17(y, mth, d) == IF ValidDate(y, mth, d) THEN <<DateTime(y, mth, d, 17)>> ELSE <<>>

\* the branch of the dd/mm[/yyyy] match m: "y = int(y) if y else base.year"
dmy_date(m, base) ==
    IF ~m.matched THEN <<>>
    ELSE date_at_17(IF m.g3 # None THEN ToInt(m.g3) ELSE YearOf(base), ToInt(m.g2), ToInt(m.g1))

\* the branch of the yyyy-mm-dd match m
iso_date(m) ==
    IF ~m.matched THEN <<>> ELSE date_at_17(ToInt(m.g1), ToInt(m.g2), ToInt(m.g3))

\* the yyyy-mm-dd date before the dd/mm date
due_of_patterns_iso_first(dmy, iso, weekday) ==
    IF iso # <<>> THEN iso[1] ELSE IF dmy # <<>> THEN dmy[1] ELSE weekday

\* the explicit dates in the order of the code, then the weekdays
due_of_patterns(dmy, iso, weekday) ==
    IF dmy # <<>> THEN dmy[1] ELSE IF iso # <<>> THEN iso[1] ELSE weekday

\* the rules on t = text.lower(), in the order of the code
due_of_lower(t, base) ==
    IF Contains(t, "eod") THEN DueEod(base)
    ELSE IF Contains(t, "tomorrow") THEN DueTomorrow(base)
    ELSE due_of_patterns(dmy_date(DmySearch(t), base), iso_date(IsoSearch(t)),
                         DueWeekday(t, base))

_parse_due_date(text, base) == due_of_lower(Lower(text), base)

(***************************************************************************)
(* Python values used by ThreadSummarizer.                                 *)
(*   dict      a function; d[k] raises KeyError when k is not in DOMAIN d  *)
(*   raise     an operator that can raise returns Raised(exc) instead of   *)
(*             its value                                                   *)
(*   email     [sender, sender_email, subject, body, received_time], the   *)
(*             received_time a datetime or None                            *)
(***************************************************************************)
Raised(exc) == [raised |-> exc]

\* what an operator returning a list returns when it does not raise
Returned(v) == [value |-> v]

IsRaised(v) == "raised" \in DOMAIN v

HasKey(d, k) == k \in DOMAIN d

\* the truth value of d.get(k) for a bool entry: None, of an absent key, is false
Flag(d, k) == HasKey(d, k) /\ d[k]

\* d.get(k, 0)
GetInt(d, k) == IF HasKey(d, k) THEN d[k] ELSE 0

\* seq[-n:]
LastN(seq, n) == SubSeq(seq, Max(1, Len(seq) - n + 1), Len(seq))

\* seq[:n]
FirstN(seq, n) == SubSeq(seq, 1, Min(n, Len(seq)))

\* str(n) for n >= 0
RECURSIVE ToStr(_)
ToStr(n) == IF n < 10 THEN At(Digits, n + 1)
            ELSE ToStr(n \div 10) \o At(Digits, (n % 10) + 1)

\* str(n) for any int
IntStr(n) == IF n < 0 THEN "-" \o ToStr(0 - n) ELSE ToStr(n)

\* insertion of e into a list sorted by received_time, after the equal ones:
\* list.sort is stable
RECURSIVE InsertByTime(_, _)
InsertByTime(sorted, e) ==
    IF sorted = <<>> THEN <<e>>
    ELSE IF sorted[Len(sorted)].received_time <= e.received_time THEN Append(sorted, e)
    ELSE Append(InsertByTime(SubSeq(sorted, 1, Len(sorted) - 1), e), sorted[Len(sorted)])

RECURSIVE SortByTime(_)
SortByTime(emails) ==
    IF emails = <<>> THEN <<>>
    ELSE InsertByTime(SortByTime(SubSeq(emails, 1, Len(emails) - 1)), emails[Len(emails)])

\* a sort by received_time that puts emails of equal received_time in the
\* reverse of the order in which they were passed
RECURSIVE ReverseSeq(_)
ReverseSeq(s) == IF s = <<>> THEN <<>> ELSE Append(ReverseSeq(SubSeq(s, 2, Len(s))), s[1])

sorted_by_received_time_ties_reversed(emails) ==
    IF Len(emails) >= 2 /\ \E i \in 1..Len(emails) : emails[i].received_time = NoneDt
    THEN Raised("TypeError")
    ELSE Returned(SortByTime(ReverseSeq(emails)))

\* sorted(thread_emails, key=lambda x: x['received_time']): comparing None with a
\* datetime (or with None) raises TypeError; a single element is never compared
sorted_by_received_time(emails) ==
    IF Len(emails) >= 2 /\ \E i \in 1..Len(emails) : emails[i].received_time = NoneDt
    THEN Raised("TypeError")
    ELSE Returned(SortByTime(emails))

\* any(kw in s for kw in kws)
ContainsAny(s, kws) == \E i \in 1..Len(kws) : Contains(s, kws[i])

(***************************************************************************)
(* thread_summarizer.py: ThreadSummarizer._calculate_priority_score        *)
(***************************************************************************)
response_words == <<"please confirm", "can you", "need your">>

\* the score left as summed, without the clamp
priority_normalize_unclamped(score) == score

\* "Normalize score to 0-100"
priority_normalize(score) == Min(100, Max(0, score))

\* "Determine priority level"
priority_level(score) ==
    IF score >= 70 THEN "Critical"
    ELSE IF score >= 50 THEN "High"
    ELSE IF score >= 30 THEN "Medium"
    ELSE "Low"

\* a deduction of 30 in place of 10 for old threads
recency_points_deduct_30(days_since_last) ==
    IF days_since_last < 2 THEN 20
    ELSE IF days_since_last > 7 THEN -30
    ELSE 0

\* "Factor 3: Recent activity"
recency_points(days_since_last) ==
    IF days_since_last < 2 THEN 20
    ELSE IF days_since_last > 7 THEN -10
    ELSE 0

recency_factor(days_since_last) ==
    IF days_since_last < 2 THEN <<"Recent activity (< 2 days)">>
    ELSE IF days_since_last > 7 THEN <<"No recent activity (> 7 days)">>
    ELSE <<>>

Factor(cond, points, text) == IF cond THEN [points |-> points, factors |-> <<text>>]
                              ELSE [points |-> 0, factors |-> <<>>]

_calculate_priority_score(sorted_emails, meta, clock) ==
    IF sorted_emails = <<>> THEN [score |-> 0, priority |-> "Low", factors |-> <<>>]
    ELSE
    LET last_email == sorted_emails[Len(sorted_emails)]
        last_body == Lower(last_email.body)
        f1 == Factor(Flag(meta, "is_urgent"), 30, "Contains urgent keywords")
        f2 == Factor(Contains(last_body, "?") \/ ContainsAny(last_body, response_words),
                     25, "Response/action required")
        days_since_last == DaysBetween(clock, last_email.received_time)
        f3 == [points |-> recency_points(days_since_last),
               factors |-> recency_factor(days_since_last)]
        f4 == Factor(GetInt(meta, "participant_count") > 3, 10, "Multiple stakeholders involved")
        f5 == Factor(Flag(meta, "has_delay"), 15, "Contains delay indicators")
        f6 == Factor(GetInt(meta, "email_count") > 10, 10, "High email volume (active discussion)")
        f7 == Factor(Flag(meta, "is_customs"), 5, "Customs-related")
        f8 == Factor(Flag(meta, "is_transport"), 5, "Transport-related")
        all == <<f1, f2, f3, f4, f5, f6, f7, f8>>
        score == priority_normalize(SumSeq([i \in 1..Len(all) |-> all[i].points]))
    IN  IF last_email.received_time = NoneDt THEN Raised("TypeError")
        ELSE [ score |-> score,
               priority |-> priority_level(score),
               factors |-> f1.factors \o f2.factors \o f3.factors \o f4.factors
                           \o f5.factors \o f6.factors \o f7.factors \o f8.factors ]

(***************************************************************************)
(* thread_summarizer.py: ThreadSummarizer._extract_conversation_insights   *)
(***************************************************************************)
\* the indicators without the question mark
question_indicators_without_mark ==
    <<"please confirm", "can you", "could you", "would you",
      "need your", "waiting for", "please provide", "please send">>

question_indicators == <<"?", "please confirm", "can you", "could you", "would you",
                         "need your", "waiting for", "please provide", "please send">>

waiting_phrases == <<"waiting for", "waiting on", "pending", "awaiting">>

important_words == <<"decision", "agreed", "confirmed", "approved", "rejected",
                     "issue", "problem", "solution", "action", "deadline">>

\* s.replace('\n', ' ')
ReplaceNewlines(s) ==
    Concat([i \in 1..Len(s) |-> IF At(s, i) = "\n" THEN " " ELSE At(s, i)])

\* one entry of conversation_flow; the date is kept as the datetime that
\* strftime('%Y-%m-%d %H:%M') prints
flow_entry(email) ==
    [ date |-> email.received_time,
      sender |-> email.sender,
      subject |-> email.subject,
      preview |-> Strip(ReplaceNewlines(Prefix(email.body, 150)))
                  \o (IF Len(email.body) > 150 THEN "..." ELSE "") ]

\* the first sentence of body.split('.') that holds the word and is shorter than
\* limit after strip(), as a list of zero or one stripped sentences
first_sentence_with(body, word, limit) ==
    LET sentences == Split(body, ".")
        hits == {i \in 1..Len(sentences) :
                    Contains(Lower(sentences[i]), word) /\ Len(Strip(sentences[i])) < limit}
    IN  IF hits = {} THEN <<>>
        ELSE <<Strip(sentences[CHOOSE i \in hits : \A j \in hits : i <= j])>>

\* the key points of one email, one per important word found in its body
RECURSIVE email_key_points(_, _)
email_key_points(email, w) ==
    IF w > Len(important_words) THEN <<>>
    ELSE LET hit == IF Contains(Lower(email.body), important_words[w])
                    THEN first_sentence_with(email.body, important_words[w], 150)
                    ELSE <<>>
         IN  [i \in 1..Len(hit) |-> "[" \o email.sender \o "] " \o hit[i]]
             \o email_key_points(email, w + 1)

RECURSIVE all_key_points(_)
all_key_points(sorted_emails) ==
    IF sorted_emails = <<>> THEN <<>>
    ELSE all_key_points(SubSeq(sorted_emails, 1, Len(sorted_emails) - 1))
         \o email_key_points(sorted_emails[Len(sorted_emails)], 1)

Range(seq) == {seq[i] : i \in 1..Len(seq)}

\* list(set(xs))[:n]: the order of a set of str is the hash order, which differs
\* from run to run; the model keeps the entries as a set, and any n of them can
\* be the ones kept
SetSlices(xs, n) ==
    LET all == Range(xs)
    IN  IF Cardinality(all) <= n THEN {all}
        ELSE {kept \in SUBSET all : Cardinality(kept) = n}

key_points_choices(sorted_emails) == SetSlices(all_key_points(sorted_emails), 5)

\* the first phrase of waiting_phrases found in last_body, as a list of zero or one
first_waiting_phrase(last_body) ==
    LET hits == {i \in 1..Len(waiting_phrases) : Contains(last_body, waiting_phrases[i])}
    IN  IF hits = {} THEN <<>>
        ELSE <<waiting_phrases[CHOOSE i \in hits : \A j \in hits : i <= j]>>

\* the follow-up from the seventh whole day on
default_next_action_from_7_days(days_since_last, response_needed) ==
    IF days_since_last >= 7
    THEN "Follow up - no activity for " \o IntStr(days_since_last) \o " days"
    ELSE IF response_needed THEN "Review and respond to last email"
    ELSE "Monitor - no immediate action required"

\* "Determine next action if not set"
default_next_action(days_since_last, response_needed) ==
    IF days_since_last > 7
    THEN "Follow up - no activity for " \o IntStr(days_since_last) \o " days"
    ELSE IF response_needed THEN "Review and respond to last email"
    ELSE "Monitor - no immediate action required"

empty_insights ==
    [ conversation_flow |-> <<>>, key_points |-> {}, response_needed |-> FALSE,
      next_action |-> None, waiting_on |-> None, last_responder |-> None ]

\* the insights when only a waiting phrase sets next_action before the default
\* rule, an owed response being left to that rule
_extract_conversation_insights_response_by_default(sorted_emails, clock, key_points) ==
    IF sorted_emails = <<>> THEN empty_insights
    ELSE
    LET last_email == sorted_emails[Len(sorted_emails)]
        last_body == Lower(last_email.body)
        flow_emails == LastN(sorted_emails, 5)
        response_needed == ContainsAny(last_body, question_indicators)
        waiting == first_waiting_phrase(last_body)
        snippet == IF waiting = <<>> THEN ""
                   ELSE LET idx == Find(last_body, waiting[1])
                        IN  SubSeq(last_body, idx, Min(Len(last_body), idx + 99))
        days_since_last == DaysBetween(clock, last_email.received_time)
    IN  IF \E i \in 1..Len(flow_emails) : flow_emails[i].received_time = NoneDt
        THEN Raised("AttributeError")
        ELSE [ conversation_flow |-> [i \in 1..Len(flow_emails) |-> flow_entry(flow_emails[i])],
               key_points |-> key_points,
               response_needed |-> response_needed,
               next_action |-> IF waiting # <<>> THEN "Waiting on external party"
                               ELSE default_next_action(days_since_last, response_needed),
               waiting_on |-> IF waiting = <<>> THEN None
                              ELSE "Check email: " \o Prefix(snippet, 80) \o "...",
               last_responder |-> last_email.sender ]

\* key_points is the outcome of list(set(...))[:5], one of key_points_choices
_extract_conversation_insights(sorted_emails, clock, key_points) ==
    IF sorted_emails = <<>> THEN empty_insights
    ELSE
    LET last_email == sorted_emails[Len(sorted_emails)]
        last_body == Lower(last_email.body)
        flow_emails == LastN(sorted_emails, 5)
        response_needed == ContainsAny(last_body, question_indicators)
        waiting == first_waiting_phrase(last_body)
        snippet == IF waiting = <<>> THEN ""
                   ELSE LET idx == Find(last_body, waiting[1])
                        IN  SubSeq(last_body, idx, Min(Len(last_body), idx + 99))
        next_action1 == IF waiting # <<>> THEN "Waiting on external party"
                        ELSE IF response_needed
                             THEN "Response required - question or request in last email"
                             ELSE None
        days_since_last == DaysBetween(clock, last_email.received_time)
    IN  IF \E i \in 1..Len(flow_emails) : flow_emails[i].received_time = NoneDt
        THEN Raised("AttributeError")
        ELSE [ conversation_flow |-> [i \in 1..Len(flow_emails) |-> flow_entry(flow_emails[i])],
               key_points |-> key_points,
               response_needed |-> response_needed,
               next_action |-> IF next_action1 # None THEN next_action1
                               ELSE default_next_action(days_since_last, response_needed),
               waiting_on |-> IF waiting = <<>> THEN None
                              ELSE "Check email: " \o Prefix(snippet, 80) \o "...",
               last_responder |-> last_email.sender ]

(***************************************************************************)
(* thread_summarizer.py: the extractive summary (TF-IDF + MMR).            *)
(* float values are fixed-point integers: term weights in units of         *)
(* 1/WeightScale, cosines in units of 1/CosScale, floor-rounded.           *)
(***************************************************************************)
WeightScale == 1000
CosScale == 1000

\* floor(sqrt(n)), by bisection of lo..hi
RECURSIVE ISqrtIn(_, _, _)
ISqrtIn(n, lo, hi) ==
    IF lo >= hi THEN lo
    ELSE LET mid == (lo + hi + 1) \div 2
         IN  IF mid * mid <= n THEN ISqrtIn(n, mid, hi) ELSE ISqrtIn(n, lo, mid - 1)

ISqrt(n) == ISqrtIn(n, 0, Min(n, 46340))

\* sum(f[t] for t in keys)
RECURSIVE SumOver(_, _)
SumOver(f, keys) ==
    IF keys = {} THEN 0
    ELSE LET t == CHOOSE x \in keys : TRUE
         IN  f[t] + SumOver(f, keys \ {t})

\* the inner function cosine(a, b) of _mmr_select, in units of 1/CosScale
cosine(a, b) ==
    IF DOMAIN a = {} \/ DOMAIN b = {} THEN 0
    ELSE LET common == DOMAIN a \cap DOMAIN b
             num == SumOver([t \in common |-> a[t] * b[t]], common)
             den1 == ISqrt(SumOver([t \in DOMAIN a |-> a[t] * a[t]], DOMAIN a))
             den2 == ISqrt(SumOver([t \in DOMAIN b |-> b[t] * b[t]], DOMAIN b))
         IN  IF den1 = 0 \/ den2 = 0 THEN 0
             ELSE Min(CosScale, ((num \div den1) * CosScale) \div den2)

\* max(red, cosine(vectors[i], vectors[j])) over j in selected, from red = 0.0
RECURSIVE redundancy(_, _, _)
redundancy(vectors, i, selected) ==
    IF selected = <<>> THEN 0
    ELSE Max(redundancy(vectors, i, SubSeq(selected, 1, Len(selected) - 1)),
             cosine(vectors[i], vectors[selected[Len(selected)]]))

\* score = (1 - diversity) * rel - diversity * red, diversity in percent
mmr_score(vectors, centroid, diversity, selected, i) ==
    (100 - diversity) * cosine(vectors[i], centroid) - diversity * redundancy(vectors, i, selected)

\* one pass of "for i in list(candidates)": the first candidate, in the ascending
\* order in which a set of small ints is iterated, whose score is greater than
\* every score before it and than the initial best_score of -1.0; -1 when none is
mmr_best_of(scores, candidates) ==
    LET better == {i \in candidates :
                      /\ scores[i] > (0 - 100) * CosScale
                      /\ \A j \in candidates : scores[j] <= scores[i]}
    IN  IF better = {} THEN -1
        ELSE CHOOSE i \in better : \A j \in better : i <= j

mmr_best(vectors, centroid, diversity, selected, candidates) ==
    mmr_best_of([i \in candidates |-> mmr_score(vectors, centroid, diversity, selected, i)],
                candidates)

\* the while loop of _mmr_select; indices are 1-based here
RECURSIVE mmr_loop(_, _, _, _, _, _)
RECURSIVE mmr_step(_, _, _, _, _, _, _)
mmr_loop(vectors, centroid, k, diversity, selected, candidates) ==
    IF candidates = {} \/ Len(selected) >= k THEN selected
    ELSE mmr_step(vectors, centroid, k, diversity, selected, candidates,
                  mmr_best(vectors, centroid, diversity, selected, candidates))

\* the next pass of the loop with best_i left among the candidates
mmr_step_keeping_candidate(vectors, centroid, k, diversity, selected, candidates, best_i) ==
    IF best_i = -1 THEN selected
    ELSE mmr_loop(vectors, centroid, k, diversity, Append(selected, best_i), candidates)

\* "if best_i == -1: break", else the next pass of the loop
mmr_step(vectors, centroid, k, diversity, selected, candidates, best_i) ==
    IF best_i = -1 THEN selected
    ELSE mmr_loop(vectors, centroid, k, diversity,
                  Append(selected, best_i), candidates \ {best_i})

_mmr_select(vectors, centroid, k, diversity) ==
    mmr_loop(vectors, centroid, k, diversity, <<>>, 1..Len(vectors))

\* re.split(r"-{2,}Original Message-{2,}|From: ", body, flags=re.IGNORECASE)[0]
before_quoted(body) ==
    LET low == Lower(body)
        isHyphen(i) == i >= 1 /\ i <= Len(low) /\ At(low, i) = "-"
        \* a match of the first alternative starts at i: a run of hyphens from i
        \* to j - 1, two or more, then the words at j, then two hyphens
        original(i) == /\ isHyphen(i)
                       /\ \E j \in (i + 2)..Len(low) :
                          /\ \A m \in i..(j - 1) : isHyphen(m)
                          /\ Slice(low, j, j + 15) = "original message"
                          /\ isHyphen(j + 16) /\ isHyphen(j + 17)
        from(i) == Slice(low, i, i + 5) = "from: "
        starts == {i \in 1..Len(low) : original(i) \/ from(i)}
    IN  IF starts = {} THEN body
        ELSE SubSeq(body, 1, (CHOOSE i \in starts : \A j \in starts : i <= j) - 1)

StartsWith(s, p) == Slice(s, 1, Len(p)) = p

signature_openers == <<"sent from my", "pozdrav", "best regards", "kind regards">>

RECURSIVE JoinLines(_)
JoinLines(lines) ==
    IF lines = <<>> THEN ""
    ELSE IF Len(lines) = 1 THEN lines[1]
    ELSE lines[1] \o "\n" \o JoinLines(Tail(lines))

_strip_quotes(body) ==
    LET kept(ln) == /\ ~StartsWith(Strip(ln), ">")
                    /\ \A i \in 1..Len(signature_openers) :
                          ~StartsWith(Lower(Strip(ln)), signature_openers[i])
    IN  JoinLines(SelectSeq(Split(before_quoted(body), "\n"), kept))

\* re.split(r"[\n\.!\?]+", text) after replace('\r', '\n'), without the parts
\* that strip() leaves empty
RECURSIVE split_on(_, _)
split_on(text, seps) ==
    LET cuts == {i \in 1..Len(text) : At(text, i) \in seps}
    IN  IF cuts = {} THEN <<text>>
        ELSE LET i == CHOOSE x \in cuts : \A z \in cuts : x <= z
             IN  <<SubSeq(text, 1, i - 1)>> \o split_on(SubSeq(text, i + 1, Len(text)), seps)

_split_sentences(text) ==
    LET parts == split_on(text, {"\r", "\n", ".", "!", "?"})
        stripped == [i \in 1..Len(parts) |-> Strip(parts[i])]
    IN  SelectSeq(stripped, LAMBDA p : Len(p) > 0)

_stopwords ==
    { "the","and","for","that","with","this","from","have","will","your","you","are","was",
      "were","been","they","them","our","but","not","all","any","can","could","should",
      "would","please","thank","thanks","regards","kind","best","hello","hi","dear","into",
      "out","over","under","about","above","below","what","when","where","who","whom","why",
      "how","which","also","asap","there","here","shall","just","let","know","get","got",
      "done","doing","need","needed","needs","send","sent","provide","provided","confirm",
      "confirmed","attached","attachment","see","look","looking","find","found","more",
      "less","many","much","very","well","good","bad","great","ok","okay","alright","fine",
      "today","yesterday","tomorrow" }

\* re.sub(r"http\S+", " ", s)
remove_urls(s) ==
    LET \* "http" at i with a character that is not white space after it
        opens(i) == /\ i + 4 <= Len(s) /\ SubSeq(s, i, i + 3) = "http"
                    /\ ~IsSpace(At(s, i + 4))
        \* a match runs to the next white space, so p is inside a match iff
        \* one opens at or before p with no white space in between
        in_url(p) == \E i \in 1..p : /\ opens(i)
                                     /\ \A j \in i..p : ~IsSpace(At(s, j))
        piece(p) == IF ~in_url(p) THEN At(s, p)
                    ELSE IF p > 1 /\ in_url(p - 1) THEN "" ELSE " "
    IN  Concat([p \in 1..Len(s) |-> piece(p)])

\* re.sub(r"[^a-z0-9\s]", " ", s)
only_alnum(s) ==
    Concat([i \in 1..Len(s) |->
              IF At(s, i) \in LowerChars \/ IsDigit(At(s, i)) \/ IsSpace(At(s, i))
              THEN At(s, i) ELSE " "])

\* s.split()
words(s) == SelectSeq(split_on(s, {" ", "\n", "\t", "\r"}), LAMBDA w : Len(w) > 0)

_tokenize(s) ==
    SelectSeq(words(only_alnum(remove_urls(Lower(s)))),
              LAMBDA t : Len(t) > 2 /\ t \notin _stopwords)

\* the candidate sentences of one email: its subject, then the sentences of its
\* body that are 40 to 220 characters long
email_sentences(em) ==
    LET subj == Strip(em.subject)
    IN  (IF subj # "" THEN <<subj>> ELSE <<>>)
        \o SelectSeq(_split_sentences(_strip_quotes(em.body)),
                     LAMBDA x : 40 <= Len(x) /\ Len(x) <= 220)

RECURSIVE candidate_sentences(_)
candidate_sentences(emails) ==
    IF emails = <<>> THEN <<>>
    ELSE email_sentences(Head(emails)) \o candidate_sentences(Tail(emails))

\* "De-duplicate": the first sentence of each strip().lower() key, stripped
RECURSIVE uniq_sentences(_)
uniq_sentences(sentences) ==
    IF sentences = <<>> THEN <<>>
    ELSE LET before == uniq_sentences(SubSeq(sentences, 1, Len(sentences) - 1))
             x == sentences[Len(sentences)]
         IN  IF \E i \in 1..Len(before) : Lower(Strip(before[i])) = Lower(Strip(x))
             THEN before
             ELSE Append(before, Strip(x))

\* math.log(n) in units of 1/1000 for n = 1..40
LogTable ==
    << 0, 693, 1099, 1386, 1609, 1792, 1946, 2079, 2197, 2303,
       2398, 2485, 2565, 2639, 2708, 2773, 2833, 2890, 2944, 2996,
       3045, 3091, 3135, 3178, 3219, 3258, 3296, 3332, 3367, 3401,
       3434, 3466, 3497, 3526, 3555, 3584, 3611, 3638, 3664, 3689 >>

\* idf[t] = math.log((1 + N) / (1 + df)) + 1.0, in units of 1/1000
idf_of(N, df) == LogTable[1 + N] - LogTable[1 + df] + 1000

\* sentences[i] for i in selected_idx
Pick(seq, idx) == [i \in 1..Len(idx) |-> seq[idx[i]]]

\* sorted(selected_idx)
RECURSIVE SortInts(_)
SortInts(S) ==
    IF S = {} THEN <<>>
    ELSE LET m == CHOOSE x \in S : \A y \in S : x <= y
         IN  <<m>> \o SortInts(S \ {m})

\* k = min(6, max(2, int(len(sentences) * 0.2)))
summary_k(n) == Min(6, Max(2, (n * 2) \div 10))

\* "df" of vocab: the number of sentences whose tokens hold t
doc_freq(tokens_list, t) ==
    Cardinality({i \in 1..Len(tokens_list) : t \in Range(tokens_list[i])})

\* Counter(toks)[t]
term_freq(toks, t) == Cardinality({j \in 1..Len(toks) : toks[j] = t})

\* vec[t] = (tf[t] / max(1, len(toks))) * idf[t], for each sentence
tfidf_vectors(tokens_list) ==
    [i \in 1..Len(tokens_list) |->
        [t \in Range(tokens_list[i]) |->
            (term_freq(tokens_list[i], t)
                * idf_of(Len(tokens_list), doc_freq(tokens_list, t)) * WeightScale)
            \div (Max(1, Len(tokens_list[i])) * 1000)]]

\* w = 1.0 + (i / max(1, len(vectors))) * 0.5, i from 0
recency_weight(i, n) == WeightScale + ((i - 1) * WeightScale) \div (2 * Max(1, n))

\* "Document centroid": centroid[t] += val * w over the vectors
centroid_of(vectors) ==
    [t \in UNION {DOMAIN vectors[i] : i \in 1..Len(vectors)} |->
        SumSeq([i \in 1..Len(vectors) |->
                  IF t \in DOMAIN vectors[i]
                  THEN (vectors[i][t] * recency_weight(i, Len(vectors))) \div WeightScale
                  ELSE 0])]

\* "Select with MMR", "Keep original order of appearance"
summary_of_vectors(sentences, vectors) ==
    Pick(sentences,
         SortInts(Range(_mmr_select(vectors, centroid_of(vectors),
                                    summary_k(Len(sentences)), 65))))

\* "if not sentences: return []", "Tokenize and compute TF-IDF"
summary_of_sentences(sentences) ==
    IF sentences = <<>> THEN <<>>
    ELSE summary_of_vectors(sentences,
             tfidf_vectors([i \in 1..Len(sentences) |-> _tokenize(sentences[i])]))

_extractive_summary(sorted_emails) ==
    summary_of_sentences(uniq_sentences(candidate_sentences(
        IF Len(sorted_emails) > 6 THEN LastN(sorted_emails, 6) ELSE sorted_emails)))

(***************************************************************************)
(* config.py: the keyword lists                                            *)
(***************************************************************************)
KEYWORDS_URGENT == <<"urgent", "asap", "emergency", "critical", "immediate">>
KEYWORDS_DELAY == <<"delay", "delayed", "postponed", "late", "waiting">>

(***************************************************************************)
(* thread_summarizer.py: the lists of the rule-based summary               *)
(***************************************************************************)
\* a line of key_events: the date is the datetime that strftime prints
Event(email, text) == [date |-> email.received_time, text |-> text]

\* the event of one middle email, as a list of zero or one
middle_event(email) ==
    LET body_lower == Lower(email.body)
        subject_lower == Lower(email.subject)
        hit(kws) == \E i \in 1..Len(kws) : Contains(body_lower, kws[i]) \/ Contains(subject_lower, kws[i])
    IN  IF hit(KEYWORDS_URGENT) THEN <<Event(email, "URGENT: Update from " \o email.sender)>>
        ELSE IF hit(KEYWORDS_DELAY) THEN <<Event(email, "Delay reported by " \o email.sender)>>
        ELSE <<>>

RECURSIVE middle_events(_)
middle_events(emails) ==
    IF emails = <<>> THEN <<>>
    ELSE middle_event(Head(emails)) \o middle_events(Tail(emails))

_extract_events(sorted_emails) ==
    LET n == Len(sorted_emails)
        first == sorted_emails[1]
        last == sorted_emails[n]
        ends == IF n = 0 THEN <<>>
                ELSE <<Event(first, "Thread started by " \o first.sender \o ": " \o first.subject)>>
                     \o (IF n > 1 THEN <<Event(last, "Latest update from " \o last.sender)>> ELSE <<>>)
        events == ends \o middle_events(SubSeq(sorted_emails, 2, n - 1))
    IN  IF \E i \in 1..Len(events) : events[i].date = NoneDt
        THEN Raised("AttributeError")
        ELSE Returned(FirstN(events, 10))

\* the senders in the order of their first email
RECURSIVE first_seen(_)
first_seen(sorted_emails) ==
    IF sorted_emails = <<>> THEN <<>>
    ELSE LET before == first_seen(SubSeq(sorted_emails, 1, Len(sorted_emails) - 1))
             sender == sorted_emails[Len(sorted_emails)].sender
         IN  IF sender \in Range(before) THEN before ELSE Append(before, sender)

\* sorted(..., key=count, reverse=True): stable, so equal counts keep the
\* order of first appearance
RECURSIVE sort_by_count(_)
sort_by_count(entries) ==
    IF entries = <<>> THEN <<>>
    ELSE LET best == CHOOSE i \in 1..Len(entries) :
                        /\ \A j \in 1..Len(entries) : entries[j].count <= entries[i].count
                        /\ \A j \in 1..(i - 1) : entries[j].count < entries[i].count
         IN  <<entries[best]>>
             \o sort_by_count(SubSeq(entries, 1, best - 1) \o SubSeq(entries, best + 1, Len(entries)))

_extract_stakeholders(sorted_emails) ==
    LET senders == first_seen(sorted_emails)
        count(sender) == Cardinality({i \in 1..Len(sorted_emails) : sorted_emails[i].sender = sender})
        entries == [i \in 1..Len(senders) |-> [sender |-> senders[i], count |-> count(senders[i])]]
        ordered == sort_by_count(entries)
    IN  FirstN([i \in 1..Len(ordered) |->
                   ordered[i].sender \o " (" \o ToStr(ordered[i].count) \o " emails)"], 10)

action_words == <<"please", "need", "required", "must", "should", "confirm", "send", "provide">>

\* the action items among the lines of one body
RECURSIVE action_lines(_)
action_lines(lines) ==
    IF lines = <<>> THEN <<>>
    ELSE LET line == Head(lines)
             keep == (Contains(line, "?") \/ ContainsAny(Lower(line), action_words)) /\ Len(line) < 200
         IN  (IF keep THEN <<Strip(line)>> ELSE <<>>) \o action_lines(Tail(lines))

RECURSIVE action_items_of(_)
action_items_of(emails) ==
    IF emails = <<>> THEN <<>>
    ELSE action_lines(Split(Head(emails).body, "\n")) \o action_items_of(Tail(emails))

_extract_action_items(sorted_emails) == FirstN(action_items_of(LastN(sorted_emails, 3)), 5)

issue_keywords == KEYWORDS_DELAY \o KEYWORDS_URGENT
                  \o <<"problem", "issue", "error", "mistake", "wrong", "missing">>

\* the issue of one email, as a list of zero or one: only the first keyword found
\* in the body is looked up
email_issue(email) ==
    LET body_lower == Lower(email.body)
        hits == {i \in 1..Len(issue_keywords) : Contains(body_lower, issue_keywords[i])}
    IN  IF hits = {} THEN <<>>
        ELSE LET keyword == issue_keywords[CHOOSE i \in hits : \A j \in hits : i <= j]
                 sent == first_sentence_with(email.body, keyword, 200)
             \* the date is the day that strftime('%Y-%m-%d') prints
             IN  [i \in 1..Len(sent) |->
                     [date |-> IF email.received_time = NoneDt THEN NoneDt
                               ELSE OrdinalOf(email.received_time),
                      text |-> sent[i]]]

RECURSIVE all_issues(_)
all_issues(sorted_emails) ==
    IF sorted_emails = <<>> THEN <<>>
    ELSE email_issue(Head(sorted_emails)) \o all_issues(Tail(sorted_emails))

issues_choices(sorted_emails) == SetSlices(all_issues(sorted_emails), 5)

\* issues is the outcome of list(set(issues))[:5], one of issues_choices
_extract_issues(sorted_emails, issues) ==
    IF \E i \in 1..Len(all_issues(sorted_emails)) : all_issues(sorted_emails)[i].date = NoneDt
    THEN Raised("AttributeError")
    ELSE Returned(issues)

\* the keys that _create_executive_summary reads with metadata[...]
executive_summary_keys == {"thread_name", "email_count", "duration_days",
                           "participant_count", "is_urgent", "has_delay"}

_create_executive_summary(meta, events, stakeholders, issues) ==
    IF ~(executive_summary_keys \subseteq DOMAIN meta) THEN Raised("KeyError")
    ELSE Returned(
        "Email thread '" \o meta["thread_name"] \o "' with " \o IntStr(meta["email_count"])
        \o " emails over " \o IntStr(meta["duration_days"]) \o " days involving "
        \o IntStr(meta["participant_count"]) \o " participants."
        \o (IF meta["is_urgent"] THEN " Thread contains URGENT items." ELSE "")
        \o (IF meta["has_delay"] THEN " Thread discusses delays." ELSE "")
        \o (IF issues # {}
            THEN " Identified " \o ToStr(Cardinality(issues)) \o " potential issues requiring attention."
            ELSE ""))

_determine_status(sorted_emails, meta, clock) ==
    IF sorted_emails = <<>> THEN Returned("Unknown")
    ELSE IF sorted_emails[Len(sorted_emails)].received_time = NoneDt THEN Raised("TypeError")
    ELSE IF ~HasKey(meta, "is_urgent") THEN Raised("KeyError")
    ELSE LET days_since == DaysBetween(clock, sorted_emails[Len(sorted_emails)].received_time)
             status == IF days_since = 0 THEN "Active today"
                       ELSE IF days_since = 1 THEN "Active yesterday"
                       ELSE IF days_since < 7 THEN "Active " \o IntStr(days_since) \o " days ago"
                       ELSE "Last activity " \o IntStr(days_since) \o " days ago"
         IN  Returned(status \o (IF meta["is_urgent"] THEN " - URGENT" ELSE ""))

_generate_reply_template(insights, meta) ==
    IF ~insights.response_needed THEN "No response required at this time."
    ELSE "Subject: Re: " \o (IF HasKey(meta, "thread_name") THEN meta["thread_name"] ELSE "Thread")
         \o "\n\nHi team,\n\n"
         \o (IF insights.waiting_on # None
             THEN "Thank you for your patience. "
                  \o "I'm following up on the pending items mentioned in the thread.\n\n"
             ELSE IF Contains(insights.next_action, "?")
             THEN "Thank you for your email. I'd like to address your questions:\n\n"
                  \o "[Answer the specific questions from the last email]\n\n"
             ELSE "Thank you for the update. I wanted to confirm the following:\n\n"
                  \o "[Provide your confirmation or update]\n\n")
         \o (IF Flag(meta, "is_urgent")
             THEN "I understand this is urgent and will prioritize accordingly.\n\n" ELSE "")
         \o (IF Flag(meta, "has_delay")
             THEN "Regarding the delay mentioned, [provide status update or resolution].\n\n" ELSE "")
         \o "Please let me know if you need any additional information.\n\n"
         \o "Best regards,\n[Your name]"

(***************************************************************************)
(* thread_summarizer.py: ThreadSummarizer._build_triage                    *)
(***************************************************************************)
triage_words == <<"please", "need", "required", "must", "confirm", "send",
                  "provide", "attach", "deliver", "ship">>

\* text is an actionable line
is_action(low) == Contains(low, "?") \/ ContainsAny(low, triage_words)

\* the entry appended to actions for one line of an email, as a list of zero or
\* one; due_date is the datetime whose isoformat() the code stores
action_of_text(em, text, low, clock) ==
    IF Len(text) < 8 \/ ~is_action(low) THEN <<>>
    ELSE << [ description |-> Prefix(text, 240),
              owner_guess |-> "me_or_team",
              requested_by |-> IF em.sender_email # "" THEN em.sender_email ELSE em.sender,
              due_date |-> _parse_due_date(low, clock) ] >>

\* text = line.strip(), low = text.lower()
action_of_stripped(em, text, clock) == action_of_text(em, text, Lower(text), clock)

line_action(em, line, clock) == action_of_stripped(em, Strip(line), clock)

RECURSIVE lines_actions(_, _, _)
lines_actions(em, lines, clock) ==
    IF lines = <<>> THEN <<>>
    ELSE line_action(em, Head(lines), clock) \o lines_actions(em, Tail(lines), clock)

RECURSIVE emails_actions(_, _)
emails_actions(emails, clock) ==
    IF emails = <<>> THEN <<>>
    ELSE lines_actions(Head(emails), Split(Head(emails).body, "\n"), clock)
         \o emails_actions(Tail(emails), clock)

\* "if due and (due - now).days <= 2"
is_due_soon(due_date, clock) == due_date # NoneDt /\ DaysBetween(due_date, clock) <= 2

\* escalation on the delay flag and on an owed response only
triage_escalate_ignoring_urgent(sorted_emails, meta, insights, clock) ==
    LET last_dt == IF sorted_emails = <<>> THEN NoneDt
                   ELSE sorted_emails[Len(sorted_emails)].received_time
    IN  \/ Flag(meta, "has_delay")
        \/ (last_dt # NoneDt /\ DaysBetween(clock, last_dt) >= 2 /\ insights.response_needed)

\* escalation on age alone, whether or not a response is owed
triage_escalate_on_age_alone(sorted_emails, meta, insights, clock) ==
    LET last_dt == IF sorted_emails = <<>> THEN NoneDt
                   ELSE sorted_emails[Len(sorted_emails)].received_time
    IN  \/ Flag(meta, "is_urgent")
        \/ Flag(meta, "has_delay")
        \/ (last_dt # NoneDt /\ DaysBetween(clock, last_dt) >= 2)

\* "Escalation"
triage_escalate(sorted_emails, meta, insights, clock) ==
    LET last_dt == IF sorted_emails = <<>> THEN NoneDt
                   ELSE sorted_emails[Len(sorted_emails)].received_time
    IN  \/ Flag(meta, "is_urgent")
        \/ Flag(meta, "has_delay")
        \/ (last_dt # NoneDt /\ DaysBetween(clock, last_dt) >= 2 /\ insights.response_needed)

\* the dict returned for the list of actions collected from the last 5 emails
triage_of_actions(actions, sorted_emails, meta, insights, clock) ==
    [ actions |-> FirstN(actions, 8),
      due_soon |-> \E i \in 1..Len(actions) : is_due_soon(actions[i].due_date, clock),
      escalate |-> triage_escalate(sorted_emails, meta, insights, clock),
      suggested_next_step |->
          IF insights.next_action # None THEN insights.next_action
          ELSE IF actions # <<>> THEN actions[1].description
          ELSE "Monitor thread" ]

\* the lines of every email of the thread are scanned, not of the last 5
_build_triage_of_all_emails(sorted_emails, meta, insights, issues, clock) ==
    triage_of_actions(emails_actions(sorted_emails, clock),
                      sorted_emails, meta, insights, clock)

_build_triage(sorted_emails, meta, insights, issues, clock) ==
    triage_of_actions(emails_actions(LastN(sorted_emails, 5), clock),
                      sorted_emails, meta, insights, clock)

(***************************************************************************)
(* thread_summarizer.py: the three paths of summarize_thread.              *)
(* clock is what datetime.now() returns during the call, key_points and    *)
(* issues are the outcomes of the two list(set(...)) slices, ai is what    *)
(* the call of self.summarizer does: "raises", or the summary text.        *)
(***************************************************************************)
\* the keys that the dict of _create_fallback_summary reads with metadata[...]
fallback_keys == {"thread_name", "email_count", "start_date", "participants"}

fallback_insights ==
    [ conversation_flow |-> <<>>, key_points |-> {}, response_needed |-> FALSE,
      next_action |-> "Review thread manually", waiting_on |-> None, last_responder |-> None ]

\* what the except block of _create_fallback_summary assigns
fallback_defaults ==
    [ insights |-> fallback_insights,
      priority |-> [score |-> 0, priority |-> "Low", factors |-> <<>>],
      reply_template |-> "No response required at this time." ]

\* the try block of _create_fallback_summary, statement by statement: s is what
\* sorted(...) gives, insights and priority what the two calls give
fallback_try_priority(insights, priority, meta) ==
    IF IsRaised(priority) THEN fallback_defaults
    ELSE [ insights |-> insights, priority |-> priority,
           reply_template |-> _generate_reply_template(insights, meta) ]

fallback_try_insights(sorted_emails, insights, meta, clock) ==
    IF IsRaised(insights) THEN fallback_defaults
    ELSE fallback_try_priority(insights,
                               _calculate_priority_score(sorted_emails, meta, clock), meta)

fallback_try_sorted(s, meta, clock, key_points) ==
    IF IsRaised(s) THEN fallback_defaults
    ELSE fallback_try_insights(s.value,
                               _extract_conversation_insights(s.value, clock, key_points),
                               meta, clock)

\* the dict returned after the try block; metadata[...] raises KeyError
fallback_dict(meta, tried) ==
    IF ~(fallback_keys \subseteq DOMAIN meta) THEN Raised("KeyError")
    ELSE [ method |-> "fallback",
           thread_name |-> meta["thread_name"],
           metadata |-> meta,
           executive_summary |-> "Thread with " \o IntStr(meta["email_count"]) \o " emails",
           key_events |-> <<"Thread started " \o meta["start_date"]>>,
           stakeholders |-> meta["participants"],
           action_items |-> <<>>,
           current_status |-> "Unable to analyze",
           issues_risks |-> {},
           conversation_insights |-> tried.insights,
           priority |-> tried.priority,
           reply_template |-> tried.reply_template ]

_create_fallback_summary(emails, meta, clock, key_points) ==
    fallback_dict(meta, fallback_try_sorted(sorted_by_received_time(emails),
                                            meta, clock, key_points))

\* the first of the values that is a raise, as a list of zero or one
RECURSIVE FirstRaised(_)
FirstRaised(values) ==
    IF values = <<>> THEN <<>>
    ELSE IF IsRaised(Head(values)) THEN <<Head(values)>>
    ELSE FirstRaised(Tail(values))

\* " ".join(parts)
RECURSIVE JoinSpace(_)
JoinSpace(parts) ==
    IF parts = <<>> THEN ""
    ELSE IF Len(parts) = 1 THEN parts[1]
    ELSE parts[1] \o " " \o JoinSpace(Tail(parts))

\* "if extractive: exec_summary = exec_summary + ' ' + ' '.join(extractive[:3])"
with_extractive(exec_summary, extractive) ==
    IF extractive # <<>> THEN exec_summary \o " " \o JoinSpace(FirstN(extractive, 3))
    ELSE exec_summary

\* the try block of _summarize_rule_based, statement by statement; each stage
\* is given what the calls before it returned, and a raise of any of them is
\* the raise of the block
rule_based_dict(sorted_emails, events, stakeholders, action_items, iss, insights, priority, exec, current_status, meta, clock) ==
    IF FirstRaised(<<exec, current_status>>) # <<>> THEN Raised("Exception")
    ELSE [ method |-> "rule_based",
           thread_name |-> meta["thread_name"],
           metadata |-> meta,
           executive_summary |-> with_extractive(exec.value,
                                                 _extractive_summary(sorted_emails)),
           key_events |-> events,
           stakeholders |-> stakeholders,
           action_items |-> action_items,
           current_status |-> current_status.value,
           issues_risks |-> iss,
           conversation_insights |-> insights,
           priority |-> priority,
           reply_template |-> _generate_reply_template(insights, meta),
           triage |-> _build_triage(sorted_emails, meta, insights, iss, clock) ]

rule_based_texts(sorted_emails, events, stakeholders, iss, insights, priority, meta, clock) ==
    rule_based_dict(sorted_emails, events, stakeholders,
                    _extract_action_items(sorted_emails), iss, insights, priority,
                    _create_executive_summary(meta, events, stakeholders, iss),
                    _determine_status(sorted_emails, meta, clock), meta, clock)

rule_based_lists(sorted_emails, events, iss, insights, priority, meta, clock) ==
    IF FirstRaised(<<events, iss, insights, priority>>) # <<>> THEN Raised("Exception")
    ELSE rule_based_texts(sorted_emails, events.value,
                          _extract_stakeholders(sorted_emails), iss.value,
                          insights, priority, meta, clock)

rule_based_try(s, meta, clock, key_points, issues) ==
    IF IsRaised(s) THEN s
    ELSE rule_based_lists(s.value, _extract_events(s.value),
                          _extract_issues(s.value, issues),
                          _extract_conversation_insights(s.value, clock, key_points),
                          _calculate_priority_score(s.value, meta, clock), meta, clock)

\* "except Exception: return self._create_fallback_summary(...)"
or_fallback(tried, emails, meta, clock, key_points) ==
    IF IsRaised(tried) THEN _create_fallback_summary(emails, meta, clock, key_points)
    ELSE tried

_summarize_rule_based(emails, meta, clock, key_points, issues) ==
    or_fallback(rule_based_try(sorted_by_received_time(emails), meta, clock,
                               key_points, issues),
                emails, meta, clock, key_points)

\* _prepare_thread_text raises where sorted or strftime does; its text is read
\* by the model only
prepare_thread_text_raises(emails) ==
    IF Len(emails) >= 2 THEN IsRaised(sorted_by_received_time(emails))
    ELSE \E i \in 1..Len(emails) : emails[i].received_time = NoneDt

\* the dict of the AI path from what the rule-based extractions returned
ai_dict(sorted_emails, events, iss, current_status, meta, ai) ==
    IF FirstRaised(<<events, iss, current_status>>) # <<>> \/ ~HasKey(meta, "thread_name")
    THEN Raised("Exception")
    ELSE [ method |-> "huggingface_ai",
           thread_name |-> meta["thread_name"],
           metadata |-> meta,
           executive_summary |-> ai,
           key_events |-> events.value,
           stakeholders |-> _extract_stakeholders(sorted_emails),
           action_items |-> _extract_action_items(sorted_emails),
           current_status |-> current_status.value,
           issues_risks |-> iss.value ]

\* the try block of _summarize_with_ai: s is what sorted(...) gives once the
\* thread text is prepared and the summarizer has answered
ai_try(s, emails, meta, clock, ai, issues) ==
    IF prepare_thread_text_raises(emails) \/ ai = "raises" THEN Raised("Exception")
    ELSE ai_dict(s.value, _extract_events(s.value), _extract_issues(s.value, issues),
                 _determine_status(s.value, meta, clock), meta, ai)

\* "except Exception: return self._summarize_rule_based(...)"
or_rule_based(tried, emails, meta, clock, key_points, issues) ==
    IF IsRaised(tried) THEN _summarize_rule_based(emails, meta, clock, key_points, issues)
    ELSE tried

_summarize_with_ai(emails, meta, clock, ai, key_points, issues) ==
    or_rule_based(ai_try(sorted_by_received_time(emails), emails, meta, clock, ai, issues),
                  emails, meta, clock, key_points, issues)

\* a raise of either path is caught and answered with the fallback summary, whose
\* own raise goes to the caller
summarize_thread(emails, meta, clock, ai, key_points, issues) ==
    or_fallback(IF use_ai /\ summarizer # None
                THEN _summarize_with_ai(emails, meta, clock, ai, key_points, issues)
                ELSE _summarize_rule_based(emails, meta, clock, key_points, issues),
                emails, meta, clock, key_points)

(***************************************************************************)
(* main.py: TransportThreadManager. A thread of a batch is                 *)
(*   [conv_id, emails, fails_at]: its key in the dict of threads, the      *)
(* number of its emails, and the call that does not succeed while the      *)
(* thread is handled ("nowhere" when every call succeeds).                 *)
(***************************************************************************)
\* self.stats after __init__
stats_init ==
    [ threads_found |-> 0, threads_processed |-> 0, emails_moved |-> 0,
      summaries_created |-> 0, timelines_created |-> 0, errors |-> 0 ]

\* self.stats[key] += n
Bump(st, key, n) == [st EXCEPT ![key] = @ + n]

\* what handling one thread does: the stats it leaves, and whether it raises
Handled(st, raised) == [stats |-> st, raised |-> raised]

\* the calls whose failure is an exception; create_thread_subfolder returns
\* None and generate_timeline returns False instead
raising_calls == {"get_thread_metadata", "summarize_thread", "write_metadata"}

\* _process_thread from the summary on: the except clause logs and raises again
process_from_summary(st, thread) ==
    IF thread.fails_at = "summarize_thread" THEN Handled(st, TRUE)
    ELSE IF thread.fails_at = "write_metadata" THEN Handled(Bump(st, "summaries_created", 1), TRUE)
    ELSE IF thread.fails_at = "generate_timeline" THEN Handled(Bump(st, "summaries_created", 1), FALSE)
    ELSE Handled(Bump(Bump(st, "summaries_created", 1), "timelines_created", 1), FALSE)

_process_thread(st, thread) ==
    IF thread.fails_at = "get_thread_metadata" THEN Handled(st, TRUE)
    ELSE IF thread.fails_at = "create_thread_subfolder" THEN Handled(st, FALSE)
    ELSE process_from_summary(Bump(st, "emails_moved", thread.emails), thread)

\* _analyze_thread: logs the flags; its except clause logs and returns
_analyze_thread(st, thread) == Handled(st, FALSE)

\* _analyze_existing_thread: no folder is created and no email is moved; its
\* except clause logs and returns
_analyze_existing_thread(st, thread) ==
    IF thread.fails_at = "get_thread_metadata" THEN Handled(st, FALSE)
    ELSE Handled(process_from_summary(st, thread).stats, FALSE)

\* the body of the loop of run
run_thread(st, thread, process) ==
    IF process THEN _process_thread(st, thread) ELSE _analyze_thread(st, thread)

\* try: ...; self.stats['threads_processed'] += 1
\* except Exception: self.stats['errors'] += 1; continue
counted(handled, process) ==
    IF handled.raised THEN Bump(handled.stats, "errors", 1)
    ELSE IF process THEN Bump(handled.stats, "threads_processed", 1)
    ELSE handled.stats

\* a manager after __init__
ManagerIdle ==
    /\ stats = stats_init
    /\ batch = <<>>
    /\ position = 0
    /\ mode = "idle"
    /\ process_threads = FALSE
    /\ attempted = <<>>
    /\ runs = <<>>
    /\ construction = NoResult

(***************************************************************************)
(* Inputs.                                                                 *)
(***************************************************************************)
MaxEmails == 2        \* emails in a thread
MaxCalls == 1         \* calls of summarize_thread on one summarizer
MaxRepeatCalls == 2   \* the same, where the clock moves between the calls
MaxTicks == 2         \* weeks the clock moves on after the first call
MaxVectors == 3       \* sentence vectors given to _mmr_select
MaxK == 3             \* the k given to _mmr_select
MaxThreads == 2       \* threads in a batch of TransportThreadManager
MaxLines == 9         \* actionable lines in one body given to _build_triage
MaxTriageEmails == 6  \* emails in a thread given to _build_triage
LongLineRepeats == 9  \* repeats of a 28-character phrase in one line
MaxCallers == 2       \* threads that use the NLP analyzer at the same time

\* lists of at most n elements of S
SeqsUpTo(S, n) == UNION {[1..m -> S] : m \in 0..n}

\* the analysis instant: Monday 2026-11-02 09:00
Now0 == DateTime(2026, 11, 2, 9)

Email(sender, subject, body, received_time) ==
    [ sender |-> sender, sender_email |-> "", subject |-> subject,
      body |-> body, received_time |-> received_time ]

\* the metadata that get_thread_metadata builds for a non-empty thread, with
\* the entries that ThreadSummarizer reads
Meta(email_count, participant_count, is_urgent, has_delay, is_transport, is_customs) ==
    [ thread_name |-> "Pickup Berlin",
      email_count |-> email_count,
      participants |-> <<"alice", "bob">>,
      participant_count |-> participant_count,
      start_date |-> "2026-10-19T09:00:00",
      duration_days |-> 3,
      is_urgent |-> is_urgent,
      has_delay |-> has_delay,
      is_transport |-> is_transport,
      is_customs |-> is_customs ]

\* {k: d[k] for k in keys}
Restrict(d, keys) == [k \in keys \cap DOMAIN d |-> d[k]]

MetaKeys == DOMAIN Meta(0, 0, FALSE, FALSE, FALSE, FALSE)

FlagKeys == {"is_urgent", "has_delay", "is_transport", "is_customs"}

\* the key sets of the metadata dicts passed to summarize_thread: all keys (a
\* thread read from the mail store), no participants (the dicts of the test
\* suite), no flags, no keys (get_thread_metadata of an empty thread)
MetaKeySets == {MetaKeys, MetaKeys \ {"participants"}, MetaKeys \ FlagKeys, {}}

\* the metadata variable when summarize_thread is not called
NoMeta == [not_called |-> TRUE]

ThreadIdle == thread_emails = <<>> /\ metadata = NoMeta /\ use_ai = FALSE
              /\ summarizer = None /\ now = 0 /\ calls = <<>> /\ extracted = NoResult
              /\ pending = NoResult
UrgencyIdle == urgency_text = NotCalled /\ urgency = NoResult
DueIdle == due_text = NotCalled /\ due_base = 0 /\ due = NoResult
MmrIdle == mmr = NoResult
TriageIdle == triage = NoResult

\* _analyzer_instance = None
NoInstance == 0

BackendNames == <<"_spacy_nlp", "_vader_analyzer", "_keybert_model", "_email_reply_parser">>

\* nlp_analyzer after import, and no thread that uses it
NlpIdle ==
    /\ analyzer_instance = NoInstance
    /\ analyzers = <<>>
    /\ backend_globals = [b \in Range(BackendNames) |-> None]
    /\ backend_loads = [b \in Range(BackendNames) |-> 0]
    /\ callers = <<>>

\* the argument use_ai of ThreadSummarizer.__init__ (a list of zero or one
\* bool: zero for the default None), config.USE_AI_SUMMARIZATION, and what the
\* import of transformers and the call of pipeline(...) do
Construction(use_ai_arg, config_use_ai, load) ==
    [ use_ai |-> use_ai_arg, USE_AI_SUMMARIZATION |-> config_use_ai, load |-> load ]

\* the flag kept after a load that failed
ThreadSummarizer_init_keeping_flag(c) ==
    LET wanted == IF c.use_ai = <<>> THEN c.USE_AI_SUMMARIZATION ELSE c.use_ai[1]
    IN  [ use_ai |-> wanted,
          summarizer |-> IF wanted /\ c.load = "loaded" THEN "pipeline" ELSE None ]

\* ThreadSummarizer.__init__: the attributes use_ai and summarizer that it leaves
ThreadSummarizer_init(c) ==
    LET wanted == IF c.use_ai = <<>> THEN c.USE_AI_SUMMARIZATION ELSE c.use_ai[1]
    IN  IF wanted /\ c.load = "loaded"
        THEN [ use_ai |-> TRUE, summarizer |-> "pipeline" ]
        ELSE [ use_ai |-> FALSE, summarizer |-> None ]

\* a summarizer after __init__ (use_ai is true only with a loaded pipeline), a
\* thread and its metadata, and the clock
ThreadInit(Threads, Metas, UseAi, Nows) ==
    /\ thread_emails \in Threads
    /\ metadata \in Metas
    /\ use_ai \in UseAi
    /\ summarizer = IF use_ai THEN "pipeline" ELSE None
    /\ now \in Nows
    /\ calls = <<>>
    /\ extracted = NoResult
    /\ pending = NoResult

\* an email received `age` hours before Now0
Received(sender, body, age) == Email(sender, "RE: Pickup Berlin", body, Now0 - age)

\* the emails before the last one of a thread: a question and a statement, both
\* three weeks old
EarlierEmails ==
    { Received("carol", "Could you send the customs papers?", 21 * 24),
      Received("carol", "The pickup is booked.", 21 * 24 + 1) }

\* the empty thread, and the threads of at most MaxEmails emails that end with
\* one of `last`, listed oldest first and listed newest first
ThreadsEndingWith(earlier, last) ==
    {<<>>} \cup
    UNION { {p \o <<l>>, <<l>> \o p} : p \in SeqsUpTo(earlier, MaxEmails - 1), l \in last }

(***************************************************************************)
(* Actions.                                                                *)
(***************************************************************************)
\* what the call of self.summarizer(...) can do
AiOutcomes == {"raises", "Pickup in Berlin was confirmed."}

sorted_or_empty(emails) ==
    IF IsRaised(sorted_by_received_time(emails)) THEN <<>>
    ELSE sorted_by_received_time(emails).value

\* a call of summarize_thread(thread_emails, metadata) that returns or raises
SummarizeThread(limit) ==
    /\ metadata # NoMeta
    /\ Len(calls) < limit
    /\ \E ai \in (IF use_ai /\ summarizer # None THEN AiOutcomes ELSE {None}),
          key_points \in key_points_choices(sorted_or_empty(thread_emails)),
          issues \in issues_choices(sorted_or_empty(thread_emails)) :
            calls' = Append(calls,
                [ clock |-> now, ai |-> ai,
                  ret |-> summarize_thread(thread_emails, metadata, now, ai, key_points, issues) ])
    /\ UNCHANGED <<thread_emails, metadata, use_ai, summarizer, now,
                   urgency_text, urgency, due_text, due_base, due, mmr, extracted, manager_vars, pending, triage, nlp_vars>>

\* time passes between two calls
TickHours == {12, 7 * 24}

Tick ==
    /\ metadata # NoMeta
    /\ calls # <<>>
    /\ \E h \in TickHours :
          /\ now + h <= calls[1].clock + MaxTicks * 7 * 24
          /\ now' = now + h
    /\ UNCHANGED <<thread_emails, metadata, use_ai, summarizer, calls,
                   urgency_text, urgency, due_text, due_base, due, mmr, extracted, manager_vars, pending, triage, nlp_vars>>

\* a call of NLPAnalyzer._calculate_urgency(urgency_text)
CalculateUrgency ==
    /\ urgency_text # NotCalled
    /\ urgency = NoResult
    /\ urgency' = _calculate_urgency(urgency_text)
    /\ UNCHANGED <<thread_emails, metadata, use_ai, summarizer, now, calls,
                   urgency_text, due_text, due_base, due, mmr, extracted, manager_vars, pending, triage, nlp_vars>>

\* a call of ThreadSummarizer._parse_due_date(due_text, due_base)
ParseDueDate ==
    /\ due_text # NotCalled
    /\ due = NoResult
    /\ due' = [value |-> _parse_due_date(due_text, due_base)]
    /\ UNCHANGED <<thread_emails, metadata, use_ai, summarizer, now, calls,
                   urgency_text, urgency, due_text, due_base, mmr, extracted, manager_vars, pending, triage, nlp_vars>>

\* a call of ThreadSummarizer._mmr_select(vectors, centroid, k, diversity)
MmrSelect ==
    /\ mmr # NoResult
    /\ mmr.selected = NoResult
    /\ mmr' = [mmr EXCEPT !.selected =
                  [value |-> _mmr_select(mmr.vectors, mmr.centroid, mmr.k, mmr.diversity)]]
    /\ UNCHANGED <<thread_emails, metadata, use_ai, summarizer, now, calls,
                   urgency_text, urgency, due_text, due_base, due, extracted, manager_vars, pending, triage, nlp_vars>>

\* a call of ThreadSummarizer._extractive_summary(sorted_emails), as made by
\* _summarize_rule_based on the sorted thread
ExtractiveSummary ==
    /\ metadata # NoMeta
    /\ extracted = NoResult
    /\ ~IsRaised(sorted_by_received_time(thread_emails))
    /\ extracted' = [value |-> _extractive_summary(sorted_by_received_time(thread_emails).value)]
    /\ UNCHANGED <<thread_emails, metadata, use_ai, summarizer, now, calls,
                   urgency_text, urgency, due_text, due_base, due, mmr, manager_vars, pending, triage, nlp_vars>>

(***************************************************************************)
(* Spec: one summarizer, one thread, calls of summarize_thread with every  *)
(* shape of metadata, with and without the AI pipeline.                    *)
(***************************************************************************)
SpecBodies ==
    { "", "Can you confirm the pickup address?", "Please send the papers by tomorrow",
      "The truck arrived." }

\* hours between the last email and Now0: two hours, and eight days
SpecAges == {2, 8 * 24}

SpecThreads ==
    ThreadsEndingWith({Received("carol", "Could you send the customs papers?", 21 * 24)},
                      {Received("alice", b, a) : b \in SpecBodies, a \in SpecAges})

\* full metadata records over the urgent and delay flags, and a record of
\* every key set, urgent and not
SpecMetas ==
    { Meta(2, 2, u, d, FALSE, FALSE) : u \in BOOLEAN, d \in BOOLEAN } \cup
    { Restrict(Meta(2, 2, u, FALSE, FALSE, FALSE), keys) : u \in BOOLEAN, keys \in MetaKeySets }

Init ==
    /\ ThreadInit(SpecThreads, SpecMetas, BOOLEAN, {Now0})
    /\ UrgencyIdle /\ DueIdle /\ MmrIdle /\ ManagerIdle /\ TriageIdle /\ NlpIdle

Next == SummarizeThread(MaxCalls)

Spec == Init /\ [][Next]_vars

(***************************************************************************)
(* SpecScores: the two scores. Either a thread and full metadata over all  *)
(* flags and counts for _calculate_priority_score, or a text for           *)
(* _calculate_urgency.                                                     *)
(***************************************************************************)
\* every full metadata record over the four flags, with the two counts on
\* either side of their thresholds (participant_count > 3, email_count > 10)
ScoreMetas ==
    { Meta(c[1], c[2], u, d, t, cu) :
        c \in {<<1, 1>>, <<11, 4>>}, u \in BOOLEAN, d \in BOOLEAN,
        t \in BOOLEAN, cu \in BOOLEAN }
    \cup { Meta(10, 3, b, b, b, b) : b \in BOOLEAN }

\* hours between the last email and Now0, on both sides of "< 2 days" and of
\* "> 7 days", and an email dated after the analysis instant
ScoreAges == {0 - 3, 2, 47, 48, 7 * 24 + 23, 8 * 24}

\* last bodies: nothing asked, a phrase that both _calculate_priority_score and
\* _extract_conversation_insights look for, and one that only the latter does
ScoreBodies == {"The truck arrived.", "I NEED YOUR answer", "Could you send the papers today"}

ScoreThreads ==
    ThreadsEndingWith({Received("carol", "Could you send the customs papers?", 21 * 24)},
                      {Received("alice", b, a) :
                          b \in ScoreBodies, a \in ScoreAges})

UrgencyFragments ==
    << "URGENT", "asap", "late", "emergency!", "critical deadline", "past due today",
       "escalate by EOD", "please confirm", "Need your OK!!" >>

\* the fragments at the positions S, joined in order
FragmentText(S) == JoinSpace(Pick(UrgencyFragments, SortInts(S)))

\* texts with more exclamation marks and more words in capitals than count, with
\* a keyword said three times, and with capitals next to a digit or a small letter
UrgencyExtraTexts ==
    { "CALL NOW NOW NOW NOW NOW NOW!!!!!!", "late, too late and delayed, so late",
      "ASAP2 is an ABc code, ID 7" }

UrgencyTexts ==
    {FragmentText(S) : S \in SUBSET (1..Len(UrgencyFragments))} \cup UrgencyExtraTexts

InitScores ==
    \/ /\ ThreadInit(ScoreThreads, ScoreMetas, {FALSE}, {Now0})
       /\ UrgencyIdle /\ DueIdle /\ MmrIdle /\ ManagerIdle /\ TriageIdle /\ NlpIdle
    \/ /\ ThreadIdle /\ DueIdle /\ MmrIdle /\ ManagerIdle /\ TriageIdle /\ NlpIdle
       /\ urgency_text \in UrgencyTexts
       /\ urgency = NoResult

NextScores == SummarizeThread(MaxCalls) \/ CalculateUrgency

SpecScores == InitScores /\ [][NextScores]_vars

(***************************************************************************)
(* SpecRepeat: one summarizer without AI and one thread; summarize_thread  *)
(* is called again on the same thread and metadata while the wall clock    *)
(* moves on.                                                               *)
(***************************************************************************)
RepeatBodies ==
    { "The truck arrived.", "Can you send the papers by friday?", "Please confirm by EOD" }

RepeatThreads ==
    ThreadsEndingWith({Received("carol", "Could you send the customs papers?", 21 * 24)},
                      {Received("alice", b, a) : b \in RepeatBodies, a \in {2, 6 * 24}})

RepeatMetas == { Meta(2, 2, u, FALSE, FALSE, FALSE) : u \in BOOLEAN }

InitRepeat ==
    /\ ThreadInit(RepeatThreads, RepeatMetas, {FALSE}, {Now0})
    /\ UrgencyIdle /\ DueIdle /\ MmrIdle /\ ManagerIdle /\ TriageIdle /\ NlpIdle

NextRepeat == SummarizeThread(MaxRepeatCalls) \/ Tick

SpecRepeat == InitRepeat /\ [][NextRepeat]_vars

(***************************************************************************)
(* SpecMMR: calls of _mmr_select on lists of sparse vectors, and calls of  *)
(* _extractive_summary on threads whose bodies hold sentences of 40 to 220 *)
(* characters, some of them equal up to case and white space.              *)
(***************************************************************************)
\* sparse vectors over the terms "a" and "b", weights in units of 1/WeightScale:
\* a unit vector, a mixed one, the empty dict, a zero weight, a negative weight
VectorPool ==
    { [t \in {"a"} |-> 1000], [t \in {"a", "b"} |-> 500],
      <<>>, [t \in {"a"} |-> 0], [t \in {"a"} |-> 0 - 1000] }

\* the centroid that _extractive_summary computes, or one a caller passes
CentroidsFor(vectors) == {centroid_of(vectors), <<>>, [t \in {"a"} |-> 0 - 1000]}

\* diversity in percent: the default 0.6 and the 0.65 of _extractive_summary
Diversities == {60, 65}

MmrInput(vectors, centroid, k, diversity) ==
    [ vectors |-> vectors, centroid |-> centroid, k |-> k, diversity |-> diversity,
      selected |-> NoResult ]

MmrInputs ==
    { MmrInput(v, c, k, d) :
        v \in SeqsUpTo(VectorPool, MaxVectors), c \in {1, 2, 3}, k \in 0..MaxK,
        d \in Diversities }

\* the input of MmrInputs with its centroid chosen among CentroidsFor
WithCentroid(in) ==
    [in EXCEPT !.centroid =
        IF in.centroid = 1 THEN centroid_of(in.vectors)
        ELSE IF in.centroid = 2 THEN <<>> ELSE [t \in {"a"} |-> 0 - 1000]]

LongSentences ==
    << "The truck left the Berlin warehouse at nine this morning",
       "Customs papers for the shipment are still missing today",
       "Driver reports a delay of two hours at the border crossing" >>

\* fifteen sentences that differ in one word
PalletWords ==
    << "one", "two", "three", "four", "five", "six", "seven", "eight", "nine", "ten",
       "eleven", "twelve", "thirteen", "fourteen", "fifteen" >>

RECURSIVE PalletReport(_)
PalletReport(n) ==
    IF n = 0 THEN ""
    ELSE PalletReport(n - 1) \o "Pallet number " \o PalletWords[n]
         \o " was loaded onto the truck in Hamburg. "

SummaryBodies ==
    { "",
      LongSentences[1] \o ". " \o LongSentences[2] \o ".",
      "THE TRUCK LEFT the Berlin warehouse at nine this morning!\n"
          \o LongSentences[3] \o "?",
      LongSentences[1] \o ". Thanks.\n" \o LongSentences[2] \o ".\n"
          \o LongSentences[3] \o ".\n  " \o LongSentences[1] \o "  .",
      PalletReport(15) }

\* two subjects that are one sentence up to case and white space; the replies
\* are a day younger
SummaryEmails ==
    { Email("alice", "RE: Pickup Berlin", b, Now0 - 48) : b \in SummaryBodies }

SummaryReplies ==
    { Email("bob", " re: pickup BERLIN ", b, Now0 - 24) : b \in SummaryBodies \ {PalletReport(15)} }

\* an email, a reply, and both in either order
SummaryThreads ==
    {<<>>} \cup {<<e>> : e \in SummaryEmails \cup SummaryReplies}
    \cup {<<e, r>> : e \in SummaryEmails, r \in SummaryReplies}
    \cup {<<r, e>> : e \in SummaryEmails, r \in SummaryReplies}

\* the vectors of the states in which the thread varies
MmrInput0 ==
    MmrInput(<< [t \in {"a"} |-> 1000], [t \in {"b"} |-> 1000], [t \in {"a", "b"} |-> 500] >>,
             [t \in {"a", "b"} |-> 1000], 2, 65)

InitMMR ==
    /\ \/ /\ mmr \in {WithCentroid(in) : in \in MmrInputs}
          /\ ThreadIdle
       \/ /\ mmr = MmrInput0
          /\ ThreadInit(SummaryThreads, {Meta(2, 2, FALSE, FALSE, FALSE, FALSE)},
                        {FALSE}, {Now0})
    /\ UrgencyIdle /\ DueIdle /\ ManagerIdle /\ TriageIdle /\ NlpIdle

NextMMR == MmrSelect \/ ExtractiveSummary

SpecMMR == InitMMR /\ [][NextMMR]_vars

(***************************************************************************)
(* SpecInsight: one summarizer without AI; threads whose last email holds  *)
(* each indicator of an owed response, each waiting phrase or none of      *)
(* them, received between three hours after the analysis instant and two   *)
(* weeks before it, after earlier emails that ask or do not ask a          *)
(* question.                                                               *)
(***************************************************************************)
InsightBodies ==
    { "", "The truck arrived.", "Is the truck there?", "PLEASE CONFIRM the slot",
      "Can you call the driver", "Could You call the driver", "Would you call the driver",
      "We need your signature", "We are waiting for the papers", "Please provide the papers",
      "Please send the papers", "Still waiting on customs", "Customs clearance is pending",
      "Awaiting customs clearance", "Please, confirm nothing", "We can. You rest" }

\* hours between the last email and the analysis instant
InsightAges == {0 - 3, 2, 7 * 24, 7 * 24 + 12, 8 * 24, 14 * 24}

InsightThreads ==
    ThreadsEndingWith(EarlierEmails,
                      {Received("alice", b, a) : b \in InsightBodies, a \in InsightAges})

InitInsight ==
    /\ ThreadInit(InsightThreads, {Meta(2, 2, FALSE, FALSE, FALSE, FALSE)}, {FALSE}, {Now0})
    /\ UrgencyIdle /\ DueIdle /\ MmrIdle /\ ManagerIdle /\ TriageIdle /\ NlpIdle

NextInsight == SummarizeThread(MaxCalls)

SpecInsight == InitInsight /\ [][NextInsight]_vars

(***************************************************************************)
(* SpecDue: calls of _parse_due_date, as _build_triage makes them on an    *)
(* actionable line with datetime.now() as base: lines that name a weekday, *)
(* alone or after a rule that comes first in the code, on each day of a    *)
(* week in the morning, at 17:00 and in the evening.                       *)
(***************************************************************************)
\* lines with a date that is no calendar date, alone, before a second date and
\* before a weekday; with a yyyy-mm-dd date whose month and day also read as
\* day and month, and one whose they do not; with 'eod' or 'tomorrow' next to a
\* date
DateRuleTexts ==
    { "please deliver by 31.02.2026", "please deliver by 31/02 or 05/03",
      "please deliver by 31.02.2026 or on friday", "please ship 2026-11-25",
      "please ship 2026-13-45", "please ship 2026-13-45, the monday",
      "please send by EOD 20.11.2026", "send it tomorrow, not on 20.11.2026",
      "please deliver by 20.11.2026" }

DueTexts ==
    { "please confirm by " \o weekdays[i] : i \in 1..Len(weekdays) }
    \cup { "Please confirm by Friday", "please send it by eod friday",
           "we need it tomorrow or monday", "please deliver on 05/11 (thursday)",
           "please ship 2026-11-05, a thursday", "confirm friday or monday?",
           "please confirm the slot" }
    \cup DateRuleTexts

\* the hours of the day at which the analysis runs
DueHours == {9, 17, 18}

\* Monday 2026-11-02 to Sunday 2026-11-08, at each of DueHours
DueBases == { DateTime(2026, 11, d, h) : d \in 2..8, h \in DueHours }

InitDue ==
    /\ due_text \in DueTexts
    /\ due_base \in DueBases
    /\ due = NoResult
    /\ ThreadIdle /\ UrgencyIdle /\ MmrIdle /\ ManagerIdle /\ TriageIdle /\ NlpIdle

NextDue == ParseDueDate

SpecDue == InitDue /\ [][NextDue]_vars

(***************************************************************************)
(* Actions of TransportThreadManager. run and run_existing_threads are     *)
(* three steps each: the call up to the loop, one iteration of the loop,   *)
(* and the part after the loop up to the return.                           *)
(***************************************************************************)
Thread(conv_id, fails_at) == [conv_id |-> conv_id, emails |-> 2, fails_at |-> fails_at]

FailurePoints ==
    { "nowhere", "get_thread_metadata", "create_thread_subfolder", "summarize_thread",
      "write_metadata", "generate_timeline" }

\* the dicts that identify_threads and get_threads_from_folder return, in
\* iteration order
Batches ==
    UNION { {[i \in 1..n |-> Thread(i, f[i])] : f \in [1..n -> FailurePoints]} : n \in 0..MaxThreads }

Returned_run(method, process, threads, done, before, after) ==
    [ method |-> method, process_threads |-> process, batch |-> threads,
      attempted |-> done, before |-> before, after |-> after ]

\* self.stats when the method that is running, or that starts, was called
stats_at_call == IF runs = <<>> THEN stats_init ELSE runs[Len(runs)].after

\* run(process_threads=process) up to the loop; `if not threads: return`
Run ==
    /\ mode = "idle"
    /\ runs = <<>>
    /\ \E threads \in Batches, process \in BOOLEAN :
          /\ stats' = [stats EXCEPT !.threads_found = Len(threads)]
          /\ process_threads' = process
          /\ attempted' = <<>>
          /\ UNCHANGED construction
          /\ IF threads = <<>>
             THEN /\ runs' = Append(runs, Returned_run("run", process, threads, <<>>, stats_at_call, stats'))
                  /\ UNCHANGED <<batch, position, mode>>
             ELSE /\ batch' = threads
                  /\ position' = 1
                  /\ mode' = "run"
                  /\ UNCHANGED runs
    /\ UNCHANGED <<thread_emails, metadata, use_ai, summarizer, now, calls,
                   urgency_text, urgency, due_text, due_base, due, mmr, extracted, pending, triage, nlp_vars>>

\* one iteration of the loop of run
RunLoop ==
    /\ mode = "run"
    /\ position <= Len(batch)
    /\ stats' = counted(run_thread(stats, batch[position], process_threads), process_threads)
    /\ attempted' = Append(attempted, batch[position].conv_id)
    /\ position' = position + 1
    /\ UNCHANGED <<batch, mode, process_threads, runs, construction>>
    /\ UNCHANGED <<thread_emails, metadata, use_ai, summarizer, now, calls,
                   urgency_text, urgency, due_text, due_base, due, mmr, extracted, pending, triage, nlp_vars>>

\* run after the loop: the report, the dashboard, the statistics, cleanup
RunReturn ==
    /\ mode = "run"
    /\ position > Len(batch)
    /\ runs' = Append(runs, Returned_run("run", process_threads, batch, attempted,
                                         stats_at_call, stats))
    /\ mode' = "idle"
    /\ batch' = <<>>
    /\ position' = 0
    /\ UNCHANGED <<stats, process_threads, attempted, construction>>
    /\ UNCHANGED <<thread_emails, metadata, use_ai, summarizer, now, calls,
                   urgency_text, urgency, due_text, due_base, due, mmr, extracted, pending, triage, nlp_vars>>

\* run_existing_threads() up to the loop, on a new manager or after run
RunExistingThreads ==
    /\ mode = "idle"
    /\ \A r \in Range(runs) : r.method = "run"
    /\ \E threads \in Batches :
          /\ attempted' = <<>>
          /\ IF threads = <<>>
             THEN /\ runs' = Append(runs, Returned_run("run_existing_threads", FALSE, threads,
                                                       <<>>, stats_at_call, stats))
                  /\ UNCHANGED <<batch, position, mode>>
             ELSE /\ batch' = threads
                  /\ position' = 1
                  /\ mode' = "run_existing_threads"
                  /\ UNCHANGED runs
    /\ UNCHANGED <<stats, process_threads, construction>>
    /\ UNCHANGED <<thread_emails, metadata, use_ai, summarizer, now, calls,
                   urgency_text, urgency, due_text, due_base, due, mmr, extracted, pending, triage, nlp_vars>>

\* one iteration of the loop of run_existing_threads
RunExistingLoop ==
    /\ mode = "run_existing_threads"
    /\ position <= Len(batch)
    /\ stats' = counted(_analyze_existing_thread(stats, batch[position]), TRUE)
    /\ attempted' = Append(attempted, batch[position].conv_id)
    /\ position' = position + 1
    /\ UNCHANGED <<batch, mode, process_threads, runs, construction>>
    /\ UNCHANGED <<thread_emails, metadata, use_ai, summarizer, now, calls,
                   urgency_text, urgency, due_text, due_base, due, mmr, extracted, pending, triage, nlp_vars>>

\* run_existing_threads after the loop
RunExistingReturn ==
    /\ mode = "run_existing_threads"
    /\ position > Len(batch)
    /\ runs' = Append(runs, Returned_run("run_existing_threads", FALSE, batch, attempted,
                                         stats_at_call, stats))
    /\ mode' = "idle"
    /\ batch' = <<>>
    /\ position' = 0
    /\ UNCHANGED <<stats, process_threads, attempted, construction>>
    /\ UNCHANGED <<thread_emails, metadata, use_ai, summarizer, now, calls,
                   urgency_text, urgency, due_text, due_base, due, mmr, extracted, pending, triage, nlp_vars>>

(***************************************************************************)
(* SpecBatch: one TransportThreadManager; run on a batch of threads, each  *)
(* with the call that fails while it is handled, then (or instead)         *)
(* run_existing_threads on another batch.                                  *)
(***************************************************************************)
InitBatch == ThreadIdle /\ UrgencyIdle /\ DueIdle /\ MmrIdle /\ ManagerIdle /\ TriageIdle /\ NlpIdle

NextBatch ==
    \/ Run
    \/ RunLoop
    \/ RunReturn
    \/ RunExistingThreads
    \/ RunExistingLoop
    \/ RunExistingReturn

SpecBatch == InitBatch /\ [][NextBatch]_vars

(***************************************************************************)
(* SpecTriage: calls of _build_triage on a chronologically sorted thread,  *)
(* with the insights that _extract_conversation_insights returns for it    *)
(* and metadata with and without the flags, and calls of summarize_thread  *)
(* on threads that say the same thing more than once. The analysis instant *)
(* is Monday 2026-11-02 09:00.                                             *)
(***************************************************************************)
TriageInput(sorted_emails, meta, insights, clock) ==
    [ sorted_emails |-> sorted_emails, metadata |-> meta, insights |-> insights,
      clock |-> clock, result |-> NoResult ]

\* a call of ThreadSummarizer._build_triage(sorted_emails, metadata, insights, issues)
BuildTriage ==
    /\ triage # NoResult
    /\ triage.result = NoResult
    /\ triage' = [triage EXCEPT !.result =
                     _build_triage(triage.sorted_emails, triage.metadata, triage.insights,
                                   <<>>, triage.clock)]
    /\ UNCHANGED <<thread_emails, metadata, use_ai, summarizer, now, calls,
                   urgency_text, urgency, due_text, due_base, due, mmr, extracted,
                   manager_vars, pending, nlp_vars>>

\* one-line bodies: nothing to do, a request without and with a question mark,
\* and requests with a due date today, tomorrow, in 2, 3 and 4 days, in 18 days
\* and a month ago, with a year of two digits and with a day and month already
\* past in the year of the analysis
TriageBodies ==
    { "The truck arrived.", "Could you send the papers today", "Is the truck there?",
      "Please confirm by EOD", "Please send the papers by tomorrow",
      "Please deliver by wednesday", "Please deliver by thursday", "Please ship it on friday",
      "Please deliver by 20.11.2026", "Please deliver by 01.10.2026",
      "Please deliver by 2026-11-04", "Please deliver by 2026-11-05",
      "Please deliver by 05.12.26", "Please deliver by 01.10" }

\* hours between the email and the analysis instant: on both sides of 2 days
TriageAges == {2, 47, 48, 72}

ActionLine(i) == "Please send pallet " \o PalletWords[i]

RECURSIVE Repeated(_, _)
Repeated(text, n) == IF n = 0 THEN "" ELSE text \o Repeated(text, n - 1)

\* bodies of several lines: MaxLines actionable lines, one line said three
\* times (with other case and white space), a line of more than 240 characters
ManyLinesBody == JoinLines([i \in 1..MaxLines |-> ActionLine(i)])

RepeatedLinesBody ==
    "Please send the papers\n  please send the papers  \nThe truck arrived.\nPlease send the papers"

LongLineBody == Repeated("Please send the pallet list ", LongLineRepeats)

\* a thread of MaxTriageEmails emails, one actionable line each, oldest first
LongThread == [i \in 1..MaxTriageEmails |-> Received("bob", ActionLine(i), 24 * (MaxTriageEmails - i) + 2)]

TriageThreads ==
    {<<>>}
    \cup { <<Received("alice", b, a)>> : b \in TriageBodies, a \in TriageAges }
    \cup { <<Received("alice", b, 2)>> : b \in {ManyLinesBody, RepeatedLinesBody, LongLineBody} }
    \cup { <<Received("carol", ManyLinesBody, 30), Received("alice", "Please confirm the slot", 2)>>,
           <<Received("carol", "Please send the papers", 30), Received("alice", "please send the papers", 2)>>,
           LongThread,
           <<Email("alice", "RE: Pickup Berlin", "Could you send the papers today", NoneDt)>> }

\* the flags set and not set, absent, and the empty dict
TriageMetas ==
    { Meta(2, 2, u, d, FALSE, FALSE) : u \in BOOLEAN, d \in BOOLEAN }
    \cup { Restrict(Meta(2, 2, FALSE, FALSE, FALSE, FALSE), keys) : keys \in {MetaKeys \ FlagKeys, {}} }

\* what _extract_conversation_insights returns for the thread; for a thread
\* with an email without a timestamp, which it cannot handle, a dict that says
\* a response is needed
InsightsFor(sorted_emails, clock) ==
    IF \E i \in 1..Len(sorted_emails) : sorted_emails[i].received_time = NoneDt
    THEN { [empty_insights EXCEPT !.response_needed = TRUE] }
    ELSE { _extract_conversation_insights(sorted_emails, clock, kp) :
              kp \in key_points_choices(sorted_emails) }

TriageInputs ==
    UNION { { TriageInput(es, m, ins, Now0) : m \in TriageMetas, ins \in InsightsFor(es, Now0) } :
            es \in TriageThreads }

\* bodies that say the same thing twice: a sentence with an important word and
\* an actionable line, in two spellings; one sentence with two important
\* words, twice; a line three times in one body
RepeatingBodies ==
    { "Deadline is friday.\nPlease send the papers",
      "DEADLINE IS FRIDAY.\nplease send the papers",
      "The issue is a problem. The issue is a problem.",
      RepeatedLinesBody }

\* seven sentences with an important word each
SevenPointsBody ==
    "Decision made. Agreed today. Confirmed slot. Approved plan. Rejected offer. Issue found. Problem seen."

\* threads of one or two emails of the same sender with those bodies, and the
\* body of seven points alone
RepeatingThreads ==
    { <<Received("alice", b, 2)>> : b \in RepeatingBodies \cup {SevenPointsBody} }
    \cup { <<Received("alice", b1, 30), Received("alice", b2, 2)>> :
             b1 \in RepeatingBodies, b2 \in RepeatingBodies }

InitTriage ==
    /\ \/ /\ triage \in TriageInputs
          /\ ThreadIdle
       \/ /\ TriageIdle
          /\ ThreadInit(RepeatingThreads, {Meta(2, 1, FALSE, FALSE, FALSE, FALSE)}, {FALSE}, {Now0})
    /\ UrgencyIdle /\ DueIdle /\ MmrIdle /\ ManagerIdle /\ NlpIdle

NextTriage == BuildTriage \/ SummarizeThread(MaxCalls)

SpecTriage == InitTriage /\ [][NextTriage]_vars

(***************************************************************************)
(* nlp_analyzer.py: get_nlp_analyzer and NLPAnalyzer._ensure_initialized,  *)
(* called by several threads. A step of a caller is one read or one write  *)
(* of a module global or of an attribute of the shared object; the threads *)
(* can be switched between any two steps, the code takes no lock.          *)
(*   callers[c].pc        where the caller is                              *)
(*   callers[c].analyzer  what get_nlp_analyzer returned to it             *)
(*   callers[c].backend   the backend that _ensure_initialized is at       *)
(***************************************************************************)
Caller(pc, analyzer, backend) == [pc |-> pc, analyzer |-> analyzer, backend |-> backend]

\* NLPAnalyzer.__init__
NewAnalyzer == [_initialized |-> FALSE]

\* what the import of a backend gives: the loaded object, or False when the
\* package is not installed
LoadOutcomes == {"loaded", "False"}

At_pc(c, pc) == c \in 1..Len(callers) /\ callers[c].pc = pc

Goto(c, pc) == [callers EXCEPT ![c].pc = pc]

\* get_nlp_analyzer: "if _analyzer_instance is None"
GetCheck(c) ==
    /\ At_pc(c, "get_check")
    /\ callers' = Goto(c, IF analyzer_instance = NoInstance THEN "get_construct" ELSE "get_return")
    /\ UNCHANGED <<analyzer_instance, analyzers, backend_globals, backend_loads>>

\* get_nlp_analyzer: "_analyzer_instance = NLPAnalyzer()"
GetConstruct(c) ==
    /\ At_pc(c, "get_construct")
    /\ analyzers' = Append(analyzers, NewAnalyzer)
    /\ analyzer_instance' = Len(analyzers) + 1
    /\ callers' = Goto(c, "get_return")
    /\ UNCHANGED <<backend_globals, backend_loads>>

\* get_nlp_analyzer: "return _analyzer_instance"
GetReturn(c) ==
    /\ At_pc(c, "get_return")
    /\ callers' = [callers EXCEPT ![c] = Caller("ensure_check", analyzer_instance, 0)]
    /\ UNCHANGED <<analyzer_instance, analyzers, backend_globals, backend_loads>>

\* _ensure_initialized: "if not self._initialized"
EnsureCheck(c) ==
    /\ At_pc(c, "ensure_check")
    /\ callers' = IF analyzers[callers[c].analyzer]._initialized THEN Goto(c, "done")
                  ELSE [callers EXCEPT ![c] = Caller("backend_check", callers[c].analyzer, 1)]
    /\ UNCHANGED <<analyzer_instance, analyzers, backend_globals, backend_loads>>

\* the caller goes on after the backend it is at: to the next _get_... call, or
\* to "self._initialized = True"
AfterBackend(c) ==
    IF callers[c].backend < Len(BackendNames)
    THEN [callers EXCEPT ![c] = Caller("backend_check", callers[c].analyzer, callers[c].backend + 1)]
    ELSE Goto(c, "ensure_set")

\* _get_spacy, _get_vader, _get_keybert, _get_email_reply_parser:
\* "if _x is None"; when it is not, the function returns what the global holds
BackendCheck(c) ==
    /\ At_pc(c, "backend_check")
    /\ callers' = IF backend_globals[BackendNames[callers[c].backend]] = None
                  THEN Goto(c, "backend_load")
                  ELSE AfterBackend(c)
    /\ UNCHANGED <<analyzer_instance, analyzers, backend_globals, backend_loads>>

\* the same functions: the import and the construction of the backend, and the
\* assignment to the global
BackendLoad(c) ==
    /\ At_pc(c, "backend_load")
    /\ \E outcome \in LoadOutcomes :
          backend_globals' = [backend_globals EXCEPT ![BackendNames[callers[c].backend]] = outcome]
    /\ backend_loads' = [backend_loads EXCEPT ![BackendNames[callers[c].backend]] = @ + 1]
    /\ callers' = AfterBackend(c)
    /\ UNCHANGED <<analyzer_instance, analyzers>>

\* _ensure_initialized: "self._initialized = True"
EnsureSet(c) ==
    /\ At_pc(c, "ensure_set")
    /\ analyzers' = [analyzers EXCEPT ![callers[c].analyzer]._initialized = TRUE]
    /\ callers' = Goto(c, "done")
    /\ UNCHANGED <<analyzer_instance, backend_globals, backend_loads>>

\* everything but the state of nlp_analyzer
not_nlp_vars ==
    <<thread_emails, metadata, use_ai, summarizer, now, calls, urgency_text, urgency,
      due_text, due_base, due, mmr, extracted, manager_vars, pending, triage>>

(***************************************************************************)
(* SpecNlp: MaxCallers threads; each calls get_nlp_analyzer() and then     *)
(* _ensure_initialized() on what it got (as analyze_email and              *)
(* analyze_thread do), in every interleaving.                              *)
(***************************************************************************)
InitNlp ==
    /\ ThreadIdle /\ UrgencyIdle /\ DueIdle /\ MmrIdle /\ ManagerIdle /\ TriageIdle
    /\ analyzer_instance = NoInstance
    /\ analyzers = <<>>
    /\ backend_globals = [b \in Range(BackendNames) |-> None]
    /\ backend_loads = [b \in Range(BackendNames) |-> 0]
    /\ callers = [c \in 1..MaxCallers |-> Caller("get_check", NoInstance, 0)]

NextNlp ==
    \/ \E c \in 1..Len(callers) : GetCheck(c) /\ UNCHANGED not_nlp_vars
    \/ \E c \in 1..Len(callers) : GetConstruct(c) /\ UNCHANGED not_nlp_vars
    \/ \E c \in 1..Len(callers) : GetReturn(c) /\ UNCHANGED not_nlp_vars
    \/ \E c \in 1..Len(callers) : EnsureCheck(c) /\ UNCHANGED not_nlp_vars
    \/ \E c \in 1..Len(callers) : BackendCheck(c) /\ UNCHANGED not_nlp_vars
    \/ \E c \in 1..Len(callers) : BackendLoad(c) /\ UNCHANGED not_nlp_vars
    \/ \E c \in 1..Len(callers) : EnsureSet(c) /\ UNCHANGED not_nlp_vars

SpecNlp == InitNlp /\ [][NextNlp]_vars

(***************************************************************************)
(* SpecStamp: one summarizer without AI; threads in which any email can    *)
(* lack its timestamp (received_time is None), with full metadata.         *)
(***************************************************************************)
StampBodies == {"The pickup is booked.", "Can you confirm the pickup address?", "Please send the papers by tomorrow"}

\* emails of two hours and of thirty hours ago, and emails without a timestamp
StampEmails ==
    { Received("alice", b, a) : b \in StampBodies, a \in {2, 30} }
    \cup { Email("carol", "RE: Pickup Berlin", b, NoneDt) : b \in StampBodies }

StampThreads == SeqsUpTo(StampEmails, MaxEmails)

InitStamp ==
    /\ ThreadInit(StampThreads, {Meta(2, 2, u, FALSE, FALSE, FALSE) : u \in BOOLEAN}, {FALSE}, {Now0})
    /\ UrgencyIdle /\ DueIdle /\ MmrIdle /\ ManagerIdle /\ TriageIdle /\ NlpIdle

NextStamp == SummarizeThread(MaxCalls)

SpecStamp == InitStamp /\ [][NextStamp]_vars

(***************************************************************************)
(* SpecLive: a call of summarize_thread in three steps, so that the call   *)
(* of the HuggingFace pipeline can take any time. The pipeline is foreign  *)
(* code that may never answer: SummarizerAnswers has no fairness condition.*)
(* The Python code of the summarizer itself always runs on.                *)
(***************************************************************************)
\* summarize_thread is entered. With a pipeline, _summarize_with_ai prepares
\* the thread text and calls self.summarizer(thread_text, max_length=150,
\* min_length=30, do_sample=False); without one, the record that the
\* rule-based code (or the fallback) builds is fixed by the arguments and by
\* the clock read at the call.
SummarizeCall ==
    /\ metadata # NoMeta
    /\ pending = NoResult
    /\ Len(calls) < MaxCalls
    /\ \E key_points \in key_points_choices(sorted_or_empty(thread_emails)),
          issues \in issues_choices(sorted_or_empty(thread_emails)) :
            pending' =
                IF use_ai /\ summarizer # None /\ ~prepare_thread_text_raises(thread_emails)
                THEN [ clock |-> now, in_summarizer |-> TRUE, ret |-> None ]
                ELSE [ clock |-> now, in_summarizer |-> FALSE,
                       ret |-> summarize_thread(thread_emails, metadata, now, None, key_points, issues) ]
    /\ UNCHANGED <<thread_emails, metadata, use_ai, summarizer, now, calls,
                   urgency_text, urgency, due_text, due_base, due, mmr, extracted,
                   manager_vars, triage, nlp_vars>>

InSummarizer == pending # NoResult /\ pending.in_summarizer

\* the call of self.summarizer returns or raises, and summarize_thread runs to
\* its return
SummarizerAnswers ==
    /\ InSummarizer
    /\ \E ai \in AiOutcomes,
          key_points \in key_points_choices(sorted_or_empty(thread_emails)),
          issues \in issues_choices(sorted_or_empty(thread_emails)) :
            calls' = Append(calls,
                [ clock |-> pending.clock, ai |-> ai,
                  ret |-> summarize_thread(thread_emails, metadata, pending.clock, ai, key_points, issues) ])
    /\ pending' = NoResult
    /\ UNCHANGED <<thread_emails, metadata, use_ai, summarizer, now,
                   urgency_text, urgency, due_text, due_base, due, mmr, extracted,
                   manager_vars, triage, nlp_vars>>

\* a call that is not inside the pipeline comes to its return statement: the
\* Python code of summarize_thread holds no unbounded loop and waits for nothing
SummarizeReturn ==
    /\ pending # NoResult
    /\ ~pending.in_summarizer
    /\ calls' = Append(calls, [ clock |-> pending.clock, ai |-> None, ret |-> pending.ret ])
    /\ pending' = NoResult
    /\ UNCHANGED <<thread_emails, metadata, use_ai, summarizer, now,
                   urgency_text, urgency, due_text, due_base, due, mmr, extracted,
                   manager_vars, triage, nlp_vars>>

InitLive ==
    /\ ThreadInit(SpecThreads, {Meta(2, 2, u, d, FALSE, FALSE) : u \in BOOLEAN, d \in BOOLEAN},
                  BOOLEAN, {Now0})
    /\ UrgencyIdle /\ DueIdle /\ MmrIdle /\ ManagerIdle /\ TriageIdle /\ NlpIdle

NextLive == SummarizeCall \/ SummarizerAnswers \/ SummarizeReturn

SpecLive == InitLive /\ [][NextLive]_vars /\ WF_vars(SummarizeReturn)

(***************************************************************************)
(* SpecOrder: threads of emails of three senders, received at two          *)
(* instants, passed in every order: oldest first, newest first, and with   *)
(* emails of one instant in either order.                                  *)
(***************************************************************************)
OrderEmails ==
    { Received(s, "The truck arrived.", a) : s \in {"alice", "bob", "carol"}, a \in {2, 26} }

OrderThreads == SeqsUpTo(OrderEmails, MaxEmails)

InitOrder ==
    /\ ThreadInit(OrderThreads, {Meta(2, 2, FALSE, FALSE, FALSE, FALSE)}, BOOLEAN, {Now0})
    /\ UrgencyIdle /\ DueIdle /\ MmrIdle /\ ManagerIdle /\ TriageIdle /\ NlpIdle

NextOrder == SummarizeThread(MaxCalls)

SpecOrder == InitOrder /\ [][NextOrder]_vars

(***************************************************************************)
(* SpecBuilt: a ThreadSummarizer constructed with each argument, each      *)
(* value of config.USE_AI_SUMMARIZATION and a model load that succeeds or  *)
(* raises, and one call of summarize_thread on a thread and metadata that  *)
(* are well-formed or lack a timestamp or the flags.                       *)
(***************************************************************************)
Constructions ==
    { Construction(a, c, l) :
        a \in {<<>>, <<TRUE>>, <<FALSE>>}, c \in BOOLEAN, l \in {"loaded", "raises"} }

BuiltThreads ==
    SpecThreads
    \cup { << Email("carol", "RE: Pickup Berlin", "The pickup is booked.", NoneDt),
              Received("alice", "Can you confirm the pickup address?", 2) >> }

BuiltMetas ==
    { Meta(2, 2, TRUE, FALSE, FALSE, FALSE),
      Restrict(Meta(2, 2, FALSE, FALSE, FALSE, FALSE), MetaKeys \ FlagKeys) }

InitBuilt ==
    /\ construction \in Constructions
    /\ use_ai = ThreadSummarizer_init(construction).use_ai
    /\ summarizer = ThreadSummarizer_init(construction).summarizer
    /\ thread_emails \in BuiltThreads
    /\ metadata \in BuiltMetas
    /\ now = Now0
    /\ calls = <<>> /\ extracted = NoResult /\ pending = NoResult
    /\ stats = stats_init /\ batch = <<>> /\ position = 0 /\ mode = "idle"
    /\ process_threads = FALSE /\ attempted = <<>> /\ runs = <<>>
    /\ UrgencyIdle /\ DueIdle /\ MmrIdle /\ TriageIdle /\ NlpIdle

NextBuilt == SummarizeThread(MaxCalls)

SpecBuilt == InitBuilt /\ [][NextBuilt]_vars

(***************************************************************************)
(* Properties.                                                             *)
(***************************************************************************)
\* the calls of summarize_thread that returned a record
Returns == {calls[i] : i \in {j \in 1..Len(calls) : ~IsRaised(calls[j].ret)}}

\* the received_time of the chronologically last email of the thread
LatestReceived ==
    CHOOSE t \in {thread_emails[i].received_time : i \in 1..Len(thread_emails)} :
        \A i \in 1..Len(thread_emails) : thread_emails[i].received_time <= t

\* the age of the last email at the instant of the call c, in hours and in
\* whole days
AgeHours(c) == c.clock - LatestReceived
AgeDays(c) == AgeHours(c) \div 24

\* the threshold table: names lists the four levels from lowest to highest
LevelOfTable(score, level, names) ==
    /\ (score < 30) <=> (level = names[1])
    /\ (30 <= score /\ score <= 49) <=> (level = names[2])
    /\ (50 <= score /\ score <= 69) <=> (level = names[3])
    /\ (score >= 70) <=> (level = names[4])

\* C1: the score of _calculate_priority_score and the score of
\* _calculate_urgency are integers of 0..100, and the level returned with each
\* is the one the threshold table gives: below 30 the lowest, 30..49 the second,
\* 50..69 the third, 70 and more the highest.
C1_ScoresAndLevels ==
    /\ \A c \in Returns :
          "priority" \in DOMAIN c.ret =>
              /\ c.ret.priority.score \in 0..100
              /\ LevelOfTable(c.ret.priority.score, c.ret.priority.priority,
                              <<"Low", "Medium", "High", "Critical">>)
    /\ urgency # NoResult =>
          /\ urgency.score \in 0..100
          /\ LevelOfTable(urgency.score, urgency.level,
                          <<"low", "medium", "high", "critical">>)

\* every factor of the priority model fired, 120 points in all, and the score
\* returned is 100
C1_Witness ==
    \E c \in Returns : /\ "priority" \in DOMAIN c.ret
                       /\ Len(c.ret.priority.factors) = 8
                       /\ c.ret.priority.score = 100
                       /\ c.ret.priority.priority = "Critical"

\* the calls on a non-empty thread with is_urgent set that returned a priority
UrgentReturns ==
    {c \in Returns : /\ thread_emails # <<>>
                     /\ Flag(metadata, "is_urgent")
                     /\ "priority" \in DOMAIN c.ret}

\* C3, as stated: a non-empty thread with is_urgent = true has a priority score
\* of at least 30 and a level of Medium or more, whatever the age of the last
\* message and the other flags and counts.
C3_UrgentAtLeast30 ==
    \A c \in UrgentReturns :
        /\ c.ret.priority.score >= 30
        /\ c.ret.priority.priority \in {"Medium", "High", "Critical"}

\* C3, amended: a non-empty thread with is_urgent = true has a priority score of
\* at least 20; the score is at least 30, and the level Medium or more, when the
\* last message is at most 7 whole days old.
C3_UrgentAtLeast20 ==
    \A c \in UrgentReturns :
        /\ c.ret.priority.score >= 20
        /\ AgeDays(c) <= 7 =>
              /\ c.ret.priority.score >= 30
              /\ c.ret.priority.priority \in {"Medium", "High", "Critical"}

\* an urgent thread whose last message is more than 7 whole days old, with no
\* other factor: 30 - 10 points, level Low
C3_Witness ==
    \E c \in UrgentReturns : /\ AgeDays(c) > 7
                             /\ c.ret.priority.score = 20
                             /\ c.ret.priority.priority = "Low"

\* C2: whenever metadata.is_urgent is true, the triage built by _build_triage
\* has escalate = true, whatever the thread holds.
C2_UrgentEscalates ==
    \A c \in Returns :
        ("triage" \in DOMAIN c.ret /\ Flag(metadata, "is_urgent")) =>
            c.ret.triage.escalate = TRUE

\* a triage of an urgent thread with no delay flag and no response owed by a
\* last message of two hours ago: is_urgent alone escalates
C2_Witness ==
    \E c \in Returns : /\ "triage" \in DOMAIN c.ret
                       /\ Flag(metadata, "is_urgent") /\ ~Flag(metadata, "has_delay")
                       /\ thread_emails # <<>> /\ AgeDays(c) < 2
                       /\ ~c.ret.conversation_insights.response_needed
                       /\ c.ret.triage.escalate = TRUE

\* C4: summarize_thread on an empty message list does not raise and returns a
\* record with priority score 0, level Low and a triage of zero actions, for
\* every metadata record, the empty one included.
C4_EmptyThread ==
    thread_emails = <<>> =>
        \A i \in 1..Len(calls) :
            /\ ~IsRaised(calls[i].ret)
            /\ "priority" \in DOMAIN calls[i].ret
            /\ calls[i].ret.priority.score = 0
            /\ calls[i].ret.priority.priority = "Low"
            /\ "triage" \in DOMAIN calls[i].ret
            /\ calls[i].ret.triage.actions = <<>>

\* the call on the empty thread with the empty metadata record raised
C4_Witness ==
    /\ thread_emails = <<>> /\ metadata = <<>>
    /\ \E i \in 1..Len(calls) : calls[i].ret = Raised("KeyError")

\* what a summarizer without a pipeline returns for the thread and metadata at
\* the instant clock
RuleBasedReturns(clock) ==
    { _summarize_rule_based(thread_emails, metadata, clock, key_points, issues) :
        key_points \in key_points_choices(sorted_or_empty(thread_emails)),
        issues \in issues_choices(sorted_or_empty(thread_emails)) }

\* C5: when the call of the AI summarizer raises, summarize_thread does not
\* raise; it returns what the rule-based path returns for the same messages and
\* metadata, and the method of the record is not 'huggingface_ai'.
C5_AiFailureFallsBack ==
    \A i \in 1..Len(calls) :
        calls[i].ai = "raises" =>
            /\ ~IsRaised(calls[i].ret)
            /\ calls[i].ret \in RuleBasedReturns(calls[i].clock)
            /\ calls[i].ret.method # "huggingface_ai"

\* the call of the AI summarizer raised and summarize_thread raised KeyError
C5_Witness ==
    \E i \in 1..Len(calls) : calls[i].ai = "raises" /\ calls[i].ret = Raised("KeyError")

\* C6: two calls of summarize_thread on the same messages and metadata, without
\* AI, return the same record (priority, insights, triage with its due dates,
\* due_soon and escalate, executive summary), at whatever instants they run.
C6_Idempotent ==
    \A i \in 1..Len(calls), j \in 1..Len(calls) :
        (calls[i].ai = None /\ calls[j].ai = None) => calls[i].ret = calls[j].ret

\* two calls on the same thread at two instants returned records of the same
\* path with different priority, different next_action and different triage
C6_Witness ==
    \E i \in 1..Len(calls), j \in 1..Len(calls) :
        /\ calls[i].clock < calls[j].clock
        /\ calls[i].ret.method = "rule_based" /\ calls[j].ret.method = "rule_based"
        /\ calls[i].ret.priority # calls[j].ret.priority
        /\ calls[i].ret.conversation_insights.next_action
              # calls[j].ret.conversation_insights.next_action
        /\ calls[i].ret.triage # calls[j].ret.triage

\* a is b without some of its elements, in the order of b
RECURSIVE IsSubsequence(_, _)
IsSubsequence(a, b) ==
    IF a = <<>> THEN TRUE
    ELSE IF b = <<>> THEN FALSE
    ELSE IF Head(a) = Head(b) THEN IsSubsequence(Tail(a), Tail(b))
    ELSE IsSubsequence(a, Tail(b))

\* the subjects and the 40 to 220 character sentences of the thread, oldest
\* email first, trimmed
StripAll(sentences) == [i \in 1..Len(sentences) |-> Strip(sentences[i])]

ThreadSentences == StripAll(candidate_sentences(sorted_or_empty(thread_emails)))

\* the sentences of the thread that differ after trimming and lower-casing
DistinctSentences == {Lower(s) : s \in Range(ThreadSentences)}

\* C7: _mmr_select returns at most k indices, each an index of the vectors and
\* none twice; _extractive_summary returns at most k = min(6, max(2, n / 5))
\* of the n distinct sentences of the thread, in their order of appearance,
\* no two of them equal after trimming and lower-casing
C7_MmrBound ==
    /\ (mmr # NoResult /\ mmr.selected # NoResult) =>
          /\ Len(mmr.selected.value) <= mmr.k
          /\ \A i \in 1..Len(mmr.selected.value) :
                mmr.selected.value[i] - 1 \in 0..(Len(mmr.vectors) - 1)
          /\ \A i, j \in 1..Len(mmr.selected.value) :
                i # j => mmr.selected.value[i] # mmr.selected.value[j]
    /\ extracted # NoResult =>
          /\ Len(extracted.value) <= Min(6, Max(2, Cardinality(DistinctSentences) \div 5))
          /\ IsSubsequence(extracted.value, ThreadSentences)
          /\ \A i, j \in 1..Len(extracted.value) :
                i # j => Lower(Strip(extracted.value[i])) # Lower(Strip(extracted.value[j]))

\* both calls returned as many as k allows and fewer than they were given: two
\* of three vectors, and three sentences of a thread that repeats one
C7_Witness ==
    /\ mmr # NoResult /\ mmr.selected # NoResult
    /\ Len(mmr.selected.value) = mmr.k /\ mmr.k = 2 /\ Len(mmr.vectors) = 3
    /\ extracted # NoResult
    /\ Len(extracted.value) = 3
    /\ Cardinality(DistinctSentences) < Len(ThreadSentences)

\* the bodies of the emails of the thread that no other email is later than
LastBodies ==
    {thread_emails[i].body :
        i \in {j \in 1..Len(thread_emails) : thread_emails[j].received_time = LatestReceived}}

\* the bodies of the emails of the thread that are earlier than another one
EarlierBodies ==
    {thread_emails[i].body :
        i \in {j \in 1..Len(thread_emails) : thread_emails[j].received_time < LatestReceived}}

\* the lower-cased body holds '?' or one of the eight phrases
AsksForResponse(body) ==
    \E phrase \in {"?", "please confirm", "can you", "could you", "would you", "need your",
                   "waiting for", "please provide", "please send"} :
        Contains(Lower(body), phrase)

\* the lower-cased body holds a waiting phrase
MentionsWaiting(body) ==
    \E phrase \in {"waiting for", "waiting on", "pending", "awaiting"} :
        Contains(Lower(body), phrase)

\* the calls that returned the insights of a non-empty thread
InsightReturns ==
    {c \in Returns : thread_emails # <<>> /\ "conversation_insights" \in DOMAIN c.ret}

\* C8: for a non-empty thread, response_needed is true if and only if the
\* lower-cased body of the chronologically last message holds '?' or one of
\* the eight phrases; the bodies of earlier messages do not count.
C8_ResponseNeeded ==
    \A c \in InsightReturns :
        /\ (\A b \in LastBodies : AsksForResponse(b)) =>
              c.ret.conversation_insights.response_needed = TRUE
        /\ (\A b \in LastBodies : ~AsksForResponse(b)) =>
              c.ret.conversation_insights.response_needed = FALSE

\* a thread listed newest first whose earlier message asks a question and whose
\* last message does not: no response is needed
C8_Witness ==
    \E c \in InsightReturns :
        /\ Len(thread_emails) = 2
        /\ thread_emails[1].received_time > thread_emails[2].received_time
        /\ \E b \in EarlierBodies : AsksForResponse(b)
        /\ \A b \in LastBodies : ~AsksForResponse(b)
        /\ c.ret.conversation_insights.response_needed = FALSE

\* the calls on a thread whose last body holds no indicator and no waiting phrase
QuietReturns ==
    {c \in InsightReturns : \A b \in LastBodies : ~AsksForResponse(b) /\ ~MentionsWaiting(b)}

\* C9 as stated: a quiet last message more than 7 days old gives a next_action
\* that starts with 'Follow up' and names the whole days since it; one at most
\* 7 days old gives the 'Monitor' default.
C9_DormantAfter7Days ==
    \A c \in QuietReturns :
        /\ AgeHours(c) > 7 * 24 =>
              /\ StartsWith(c.ret.conversation_insights.next_action, "Follow up")
              /\ Contains(c.ret.conversation_insights.next_action,
                          " " \o IntStr(AgeDays(c)) \o " days")
        /\ AgeHours(c) <= 7 * 24 =>
              c.ret.conversation_insights.next_action
                  = "Monitor - no immediate action required"

\* C9: a quiet last message whose age in whole days is more than 7 (8 days old
\* or older) gives a next_action that starts with 'Follow up' and names that
\* number of days; one whose age in whole days is at most 7 (less than 8 days
\* old) gives the 'Monitor' default.
C9_DormantAfter7WholeDays ==
    \A c \in QuietReturns :
        /\ AgeDays(c) > 7 =>
              /\ StartsWith(c.ret.conversation_insights.next_action, "Follow up")
              /\ Contains(c.ret.conversation_insights.next_action,
                          " " \o IntStr(AgeDays(c)) \o " days")
        /\ AgeDays(c) <= 7 =>
              c.ret.conversation_insights.next_action
                  = "Monitor - no immediate action required"

\* a quiet thread two weeks after its last message
C9_Witness ==
    \E c \in QuietReturns :
        /\ AgeDays(c) = 14
        /\ c.ret.conversation_insights.next_action = "Follow up - no activity for 14 days"

\* the weekdays that the lower-cased line names, Monday being 0
NamedWeekdays ==
    {d \in 0..6 :
        Contains(Lower(due_text),
                 <<"monday", "tuesday", "wednesday", "thursday", "friday", "saturday",
                   "sunday">>[d + 1])}

\* the line matches no rule that comes before the weekdays: no 'eod', no
\* 'tomorrow', and no digit, which both date patterns need
NoEarlierDateRule ==
    /\ ~Contains(Lower(due_text), "eod")
    /\ ~Contains(Lower(due_text), "tomorrow")
    /\ \A i \in 1..Len(due_text) : At(due_text, i) \notin DigitChars

\* a call of _parse_due_date on a line that names one weekday only and matches
\* no earlier rule has returned
WeekdayDueReturned ==
    /\ due_text # NotCalled /\ due # NoResult
    /\ NoEarlierDateRule
    /\ Cardinality(NamedWeekdays) = 1

\* C10: for a line that names a weekday and matches no earlier date rule, the
\* due date is on the next day of that weekday strictly after the analysis day,
\* 1 to 7 days ahead, at 17:00 of that day, whatever the hour of the analysis.
C10_WeekdayDueAt17 ==
    WeekdayDueReturned =>
        /\ due.value # NoneDt
        /\ OrdinalOf(due.value) - OrdinalOf(due_base) \in 1..7
        /\ Weekday(due.value) \in NamedWeekdays
        /\ HourOf(due.value) = 17

\* 'Please confirm by Friday' analysed on Monday 2026-11-02 at 09:00: the due
\* date is Friday 2026-11-06, at 09:00
C10_Witness ==
    /\ WeekdayDueReturned
    /\ due_text = "Please confirm by Friday"
    /\ due_base = DateTime(2026, 11, 2, 9)
    /\ due.value = DateTime(2026, 11, 6, 9)

(***************************************************************************)
(* Batches of TransportThreadManager.                                      *)
(***************************************************************************)
conv_ids(threads) == [i \in 1..Len(threads) |-> threads[i].conv_id]

\* the calls made while a thread is handled by run(process_threads=process)
\* or by run_existing_threads: _analyze_thread only reads the metadata
calls_made(r) ==
    IF r.method = "run" /\ ~r.process_threads THEN {"get_thread_metadata"} ELSE FailurePoints

\* the threads of a returned call whose handling met an exception
failed_threads(r) ==
    { i \in 1..Len(r.batch) : r.batch[i].fails_at \in raising_calls \cap calls_made(r) }

\* every thread of the batch is attempted once, in order
AttemptedInOrder ==
    /\ \A r \in Range(runs) : r.attempted = conv_ids(r.batch)
    /\ mode # "idle" => attempted = conv_ids(SubSeq(batch, 1, position - 1))

\* after run(process_threads=True): threads_processed + errors = threads_found
ProcessedPlusErrors ==
    \A r \in Range(runs) :
        r.method = "run" /\ r.process_threads =>
            r.after.threads_processed + r.after.errors = r.after.threads_found

\* every failure of a thread is counted in stats['errors']
FailuresCounted ==
    \A r \in Range(runs) : r.after.errors - r.before.errors = Cardinality(failed_threads(r))

\* C11: in run and run_existing_threads every thread of the batch is attempted
\* exactly once, in order, whatever earlier threads did; every failure of a
\* thread is counted in stats['errors']; and after run(process_threads=True)
\* threads_processed + errors equals threads_found.
C11_BatchIsolation == AttemptedInOrder /\ ProcessedPlusErrors /\ FailuresCounted

\* run_existing_threads has returned from a batch whose first thread failed
\* and whose second thread was attempted after it
C11_Witness ==
    \E r \in Range(runs) :
        /\ r.method = "run_existing_threads"
        /\ Len(r.batch) = 2
        /\ 1 \in failed_threads(r)
        /\ r.attempted = <<1, 2>>

(***************************************************************************)
(* The record of summarize_thread.                                         *)
(***************************************************************************)
AnalysisKeys == {"priority", "conversation_insights", "triage", "executive_summary", "method"}

\* C12: every record returned by summarize_thread holds a priority, the
\* conversation insights, a triage, the executive summary and the method tag,
\* whichever path built it (AI, rule-based, fallback).
C12_RecordComplete == \A c \in Returns : AnalysisKeys \subseteq DOMAIN c.ret

\* the AI path returned a record without priority, insights and triage, or the
\* fallback path returned a record without triage
C12_Witness ==
    \E c \in Returns :
        \/ /\ c.ret.method = "huggingface_ai"
           /\ AnalysisKeys \ DOMAIN c.ret = {"priority", "conversation_insights", "triage"}
        \/ /\ c.ret.method = "fallback"
           /\ AnalysisKeys \ DOMAIN c.ret = {"triage"}

(***************************************************************************)
(* The priority model.                                                     *)
(***************************************************************************)
\* the calls on a non-empty thread that returned a priority and the insights
PriorityReturns ==
    {c \in Returns : /\ thread_emails # <<>>
                     /\ "priority" \in DOMAIN c.ret
                     /\ "conversation_insights" \in DOMAIN c.ret}

\* the condition that an entry of factors stands for
FactorKind(text) ==
    CASE text = "Contains urgent keywords" -> "urgency"
      [] text = "Response/action required" -> "response"
      [] text \in {"Recent activity (< 2 days)", "No recent activity (> 7 days)"} -> "recency"
      [] text = "Multiple stakeholders involved" -> "participants"
      [] text = "Contains delay indicators" -> "delay"
      [] text = "High email volume (active discussion)" -> "volume"
      [] text = "Transport-related" -> "transport"
      [] text = "Customs-related" -> "customs"
      [] OTHER -> "other"

FactorKinds(factors) == [i \in 1..Len(factors) |-> FactorKind(factors[i])]

\* the points of each condition of the model and whether it fired, in the
\* order `order`, the response signal and the age thresholds being given
PriorityTerms(c, response, recent, old, order) ==
    LET term(kind) ==
            CASE kind = "urgency" -> <<Flag(metadata, "is_urgent"), 30>>
              [] kind = "response" -> <<response, 25>>
              [] kind = "recency" -> <<recent \/ old, IF recent THEN 20 ELSE 0 - 10>>
              [] kind = "participants" -> <<GetInt(metadata, "participant_count") > 3, 10>>
              [] kind = "delay" -> <<Flag(metadata, "has_delay"), 15>>
              [] kind = "volume" -> <<GetInt(metadata, "email_count") > 10, 10>>
              [] kind = "transport" -> <<Flag(metadata, "is_transport"), 5>>
              [] kind = "customs" -> <<Flag(metadata, "is_customs"), 5>>
    IN  [i \in 1..Len(order) |-> [kind |-> order[i], fired |-> term(order[i])[1], points |-> term(order[i])[2]]]

FiredKinds(terms) == [i \in 1..Len(SelectSeq(terms, LAMBDA t : t.fired)) |-> SelectSeq(terms, LAMBDA t : t.fired)[i].kind]

FiredPoints(terms) == SumSeq([i \in 1..Len(terms) |-> IF terms[i].fired THEN terms[i].points ELSE 0])

\* the score and the factors of the call c are those of the terms
PriorityIs(c, terms) ==
    /\ c.ret.priority.score = Min(100, Max(0, FiredPoints(terms)))
    /\ FactorKinds(c.ret.priority.factors) = FiredKinds(terms)

\* C13, as stated: the score is the clamped sum of +30 (is_urgent), +25 (the
\* last message needs a response, the response_needed signal of the insights),
\* +20 (last message less than 2 days old) or -10 (more than 7 days old), +10
\* (participant_count > 3), +15 (has_delay), +10 (email_count > 10), +5
\* (is_transport), +5 (is_customs), and factors holds one entry per condition
\* that fired, in the order urgency, response, recency, participants, delay,
\* volume, transport, customs.
C13_PriorityModel ==
    \A c \in PriorityReturns :
        PriorityIs(c, PriorityTerms(c, c.ret.conversation_insights.response_needed,
                                    AgeHours(c) < 2 * 24, AgeHours(c) > 7 * 24,
                                    <<"urgency", "response", "recency", "participants", "delay",
                                      "volume", "transport", "customs">>))

\* the last message asks with "could you": the insights say a response is
\* needed and the priority has no response factor
C13_Witness ==
    \E c \in PriorityReturns :
        /\ c.ret.conversation_insights.response_needed
        /\ \A i \in 1..Len(c.ret.priority.factors) :
              FactorKind(c.ret.priority.factors[i]) # "response"

\* what _calculate_priority_score computes: the response condition is '?' or
\* one of three phrases in the last body, the ages are whole days, and the
\* customs entry comes before the transport entry
PriorityAsCoded ==
    \A c \in PriorityReturns :
        PriorityIs(c, PriorityTerms(c, \E b \in LastBodies :
                                          \/ Contains(Lower(b), "?")
                                          \/ ContainsAny(Lower(b), response_words),
                                    AgeDays(c) < 2, AgeDays(c) > 7,
                                    <<"urgency", "response", "recency", "participants", "delay",
                                      "volume", "customs", "transport">>))

(***************************************************************************)
(* The triage of _build_triage.                                            *)
(***************************************************************************)
\* the call of _build_triage has returned
TriageBuilt == triage # NoResult /\ triage.result # NoResult

\* the metadata of the call has the flag and it is set
TriageFlag(k) == k \in DOMAIN triage.metadata /\ triage.metadata[k] = TRUE

\* the last message of the thread has a timestamp and it lies at least 48
\* hours before the analysis instant
LastTwoDaysOld ==
    /\ triage.sorted_emails # <<>>
    /\ triage.sorted_emails[Len(triage.sorted_emails)].received_time # NoneDt
    /\ triage.clock - triage.sorted_emails[Len(triage.sorted_emails)].received_time >= 2 * 24

\* C14: escalate is a boolean for every input, metadata without the flags
\* included, and it is true if and only if is_urgent is set, or has_delay is
\* set, or the last message is at least 2 whole days old and response_needed
\* is true.
C14_EscalationRule ==
    TriageBuilt =>
        /\ triage.result.escalate \in BOOLEAN
        /\ triage.result.escalate <=>
              \/ TriageFlag("is_urgent")
              \/ TriageFlag("has_delay")
              \/ (LastTwoDaysOld /\ triage.insights.response_needed)

\* metadata without the flags, a question of exactly two days ago: escalate is
\* true for the owed response alone
C14_Witness ==
    /\ TriageBuilt
    /\ DOMAIN triage.metadata \cap FlagKeys = {}
    /\ LastTwoDaysOld
    /\ triage.clock - triage.sorted_emails[1].received_time = 2 * 24
    /\ triage.insights.response_needed
    /\ triage.result.escalate = TRUE

\* the lines of the email at index e of the thread given to _build_triage
TriageLines(e) == Split(triage.sorted_emails[e].body, "\n")

\* the positions <<email, line>> of the actionable lines of the last 5
\* messages: a trimmed line of 8 characters or more with '?' or a trigger word
ActionablePositions ==
    { p \in UNION { {<<e, l>> : l \in 1..Len(TriageLines(e))} :
                    e \in {i \in 1..Len(triage.sorted_emails) : i > Len(triage.sorted_emails) - 5} } :
        /\ Len(Strip(TriageLines(p[1])[p[2]])) >= 8
        /\ is_action(Lower(Strip(TriageLines(p[1])[p[2]]))) }

\* scan order: message by message, oldest first, line by line
ScansBefore(p, q) == p[1] < q[1] \/ (p[1] = q[1] /\ p[2] < q[2])

\* the position that is number k in scan order among the positions P
ScanPosition(P, k) ==
    CHOOSE p \in P : Cardinality({q \in P : ScansBefore(q, p)}) = k - 1

\* the action was made from the line at position p
ActionOfLine(action, p) ==
    /\ Len(action.description) <= 240
    /\ action.description = Prefix(Strip(TriageLines(p[1])[p[2]]), 240)
    /\ action.requested_by = triage.sorted_emails[p[1]].sender

\* the actions are the first 8, in scan order, of the lines at the positions P
FirstOfScan(actions, P) ==
    /\ Len(actions) = Min(8, Cardinality(P))
    /\ \A k \in 1..Len(actions) : ActionOfLine(actions[k], ScanPosition(P, k))

\* C15: the triage holds at most 8 actions, each description at most 240
\* characters long; action number k is the k-th actionable line, in scan
\* order, of the last 5 messages of the thread, so with more than 8
\* actionable lines the first 8 are kept.
C15_ActionsCapped ==
    TriageBuilt =>
        /\ Len(triage.result.actions) <= 8
        /\ FirstOfScan(triage.result.actions, ActionablePositions)

\* a thread with more than 8 actionable lines in its last 5 messages, one of
\* them in the last message: 8 actions, all of the earlier message
C15_Witness ==
    /\ TriageBuilt
    /\ Len(triage.sorted_emails) = 2
    /\ Cardinality(ActionablePositions) > 8
    /\ Len(triage.result.actions) = 8
    /\ \A k \in 1..8 : triage.result.actions[k].requested_by = "carol"

\* the due date lies within 2 days of the analysis instant: not more than 48
\* hours after it and not more than 48 hours before it
WithinTwoDays(due_date, clock) ==
    /\ due_date # NoneDt
    /\ due_date - clock <= 2 * 24
    /\ clock - due_date <= 2 * 24

\* C16: due_soon is true if and only if at least one action of the returned
\* triage has an inferred due date within 2 days of 'now' (not more than 2 days
\* after it, and not a date long past); without any inferred due date due_soon
\* is false.
C16_DueSoon ==
    TriageBuilt =>
        (triage.result.due_soon <=>
            \E k \in 1..Len(triage.result.actions) :
                WithinTwoDays(triage.result.actions[k].due_date, triage.clock))

\* the only due date of the triage lies a month before the analysis instant and
\* due_soon is true
C16_Witness ==
    /\ TriageBuilt
    /\ Len(triage.result.actions) = 1
    /\ triage.result.actions[1].due_date # NoneDt
    /\ triage.clock - triage.result.actions[1].due_date > 30 * 24
    /\ triage.result.due_soon = TRUE

\* what _build_triage computes: due_soon is true when a line scanned, kept in
\* the first 8 actions or not, has a due date less than 3 days after the
\* analysis instant, however long past
DueSoonAsCoded ==
    TriageBuilt =>
        (triage.result.due_soon <=>
            \E a \in Range(emails_actions(LastN(triage.sorted_emails, 5), triage.clock)) :
                a.due_date # NoneDt /\ a.due_date - triage.clock < 3 * 24)

(***************************************************************************)
(* Repeated key points and actions.                                        *)
(***************************************************************************)
\* trimmed and lower-cased
Normalised(text) == Lower(Strip(text))

\* no two of the texts are the same after normalisation
NoRepeatIn(texts) == \A a \in texts, b \in texts : Normalised(a) = Normalised(b) => a = b

\* no two actions of the list have the same normalised description
NoRepeatedAction(actions) ==
    \A i \in 1..Len(actions), j \in 1..Len(actions) :
        Normalised(actions[i].description) = Normalised(actions[j].description) => i = j

\* C17: in every result key_points holds at most 5 entries, and neither
\* key_points nor the triage actions hold two entries with the same normalised
\* text (trimmed, case-insensitive).
C17_NoRepeats ==
    /\ \A c \in Returns :
          /\ "conversation_insights" \in DOMAIN c.ret =>
                /\ Cardinality(c.ret.conversation_insights.key_points) <= 5
                /\ NoRepeatIn(c.ret.conversation_insights.key_points)
          /\ "triage" \in DOMAIN c.ret => NoRepeatedAction(c.ret.triage.actions)
    /\ TriageBuilt => NoRepeatedAction(triage.result.actions)

\* a record of summarize_thread whose triage holds one line in two spellings
\* and whose key points hold one sentence in two spellings
C17_Witness ==
    \E c \in Returns :
        /\ "triage" \in DOMAIN c.ret
        /\ ~NoRepeatedAction(c.ret.triage.actions)
        /\ ~NoRepeatIn(c.ret.conversation_insights.key_points)

\* what the code keeps apart: key points that differ as strings, at most 5
KeyPointsAsCoded ==
    \A c \in Returns :
        "conversation_insights" \in DOMAIN c.ret =>
            /\ Cardinality(c.ret.conversation_insights.key_points) <= 5
            /\ c.ret.conversation_insights.key_points \subseteq
                  Range(all_key_points(sorted_or_empty(thread_emails)))

(***************************************************************************)
(* The NLP analyzer singleton.                                             *)
(***************************************************************************)
\* the callers that get_nlp_analyzer has returned to
Served == {c \in 1..Len(callers) : callers[c].analyzer # NoInstance}

\* C18: get_nlp_analyzer returns the same NLPAnalyzer object to every caller,
\* and each backend is initialised at most once, in every interleaving of the
\* callers.
C18_Singleton ==
    /\ \A c \in Served, d \in Served : callers[c].analyzer = callers[d].analyzer
    /\ \A b \in Range(BackendNames) : backend_loads[b] <= 1

\* two callers have finished with two different NLPAnalyzer objects, and a
\* backend was initialised twice
C18_Witness ==
    /\ \E c \in Served, d \in Served :
          /\ callers[c].pc = "done" /\ callers[d].pc = "done"
          /\ callers[c].analyzer # callers[d].analyzer
    /\ \E b \in Range(BackendNames) : backend_loads[b] = 2

(***************************************************************************)
(* Emails without a timestamp.                                             *)
(***************************************************************************)
\* the emails of the thread that have a timestamp, and whether one has none
Stamped == {i \in 1..Len(thread_emails) : thread_emails[i].received_time # NoneDt}

LacksStamp == \E i \in 1..Len(thread_emails) : thread_emails[i].received_time = NoneDt

\* the senders of the emails that are last when the emails without a timestamp
\* are ordered first: the latest of the stamped emails, or any email when none
\* has a timestamp
LastSenders ==
    IF Stamped = {} THEN {thread_emails[i].sender : i \in 1..Len(thread_emails)}
    ELSE {thread_emails[i].sender :
            i \in {j \in Stamped : \A k \in Stamped :
                      thread_emails[k].received_time <= thread_emails[j].received_time}}

\* C19: a thread with a message without a timestamp is analysed normally:
\* summarize_thread does not raise, the message is ordered as the earliest, and
\* priority, insights and triage come from the rule-based path, not from the
\* 'fallback' record.
C19_MissingTimestamp ==
    LacksStamp =>
        \A i \in 1..Len(calls) :
            /\ ~IsRaised(calls[i].ret)
            /\ calls[i].ret.method = "rule_based"
            /\ {"priority", "conversation_insights", "triage"} \subseteq DOMAIN calls[i].ret
            /\ calls[i].ret.conversation_insights.last_responder \in LastSenders

\* an urgent thread whose first email has no timestamp and whose last email, of
\* two hours ago, asks a question: the record is the fallback record, with
\* priority 0 and "Review thread manually"
C19_Witness ==
    /\ Len(thread_emails) = 2
    /\ thread_emails[1].received_time = NoneDt
    /\ thread_emails[2].received_time = Now0 - 2
    /\ thread_emails[2].body = "Can you confirm the pickup address?"
    /\ Flag(metadata, "is_urgent")
    /\ \E c \in Returns :
          /\ c.ret.method = "fallback"
          /\ c.ret.priority.score = 0
          /\ c.ret.conversation_insights.next_action = "Review thread manually"
          /\ "triage" \notin DOMAIN c.ret

\* without AI and with full metadata summarize_thread does not raise, with or
\* without timestamps; a thread with an email without a timestamp gets the
\* fallback record
FallbackWithoutStamp ==
    \A i \in 1..Len(calls) :
        /\ ~IsRaised(calls[i].ret)
        /\ LacksStamp => calls[i].ret.method = "fallback"

(***************************************************************************)
(* Termination of summarize_thread.                                        *)
(***************************************************************************)
\* C20: every call of summarize_thread eventually returns, also when the call
\* of the abstractive summarizer never does.
C20_AlwaysReturns == (pending # NoResult) ~> (pending = NoResult)

\* summarize_thread is inside the call of the pipeline, which has not answered
C20_Witness == InSummarizer /\ calls = <<>>

\* a call that does not reach the pipeline returns
ReturnsWithoutPipeline ==
    (pending # NoResult /\ ~pending.in_summarizer) ~> (pending = NoResult)

(***************************************************************************)
(* The last responder.                                                     *)
(***************************************************************************)
\* the position, in the list as passed, of the final message in timestamp
\* order: of the messages with the latest timestamp, the one passed last
FinalPosition ==
    CHOOSE i \in 1..Len(thread_emails) :
        /\ thread_emails[i].received_time = LatestReceived
        /\ \A j \in 1..Len(thread_emails) :
              thread_emails[j].received_time = LatestReceived => j <= i

\* C21: last_responder is the sender of the final message of the thread in
\* timestamp order, messages of equal timestamp keeping the order in which
\* they were passed, whatever the order in which the messages are passed.
C21_LastResponder ==
    \A c \in InsightReturns :
        c.ret.conversation_insights.last_responder = thread_emails[FinalPosition].sender

\* two messages of different senders with one timestamp: the sender of the one
\* passed second is the last responder
C21_Witness ==
    \E c \in InsightReturns :
        /\ Len(thread_emails) = 2
        /\ thread_emails[1].received_time = thread_emails[2].received_time
        /\ thread_emails[1].sender # thread_emails[2].sender
        /\ c.ret.conversation_insights.last_responder = thread_emails[2].sender

\* a thread passed newest first: the sender of the message passed first is the
\* last responder
NewestFirstPassed ==
    \E c \in InsightReturns :
        /\ Len(thread_emails) = 2
        /\ thread_emails[1].received_time > thread_emails[2].received_time
        /\ thread_emails[1].sender # thread_emails[2].sender
        /\ c.ret.conversation_insights.last_responder = thread_emails[1].sender

(***************************************************************************)
(* The next action of a thread that owes a response.                       *)
(***************************************************************************)
\* C22: whenever the insights report response_needed, next_action starts with
\* 'Response required' and waiting_on stays null; 'Waiting on external party'
\* is chosen only when response_needed is false.
C22_ResponseRequired ==
    \A c \in InsightReturns :
        LET insights == c.ret.conversation_insights
        IN  /\ insights.response_needed =>
                  /\ StartsWith(insights.next_action, "Response required")
                  /\ insights.waiting_on = None
            /\ insights.next_action = "Waiting on external party" =>
                  ~insights.response_needed

\* a last message that says 'waiting for': a response is needed, and the next
\* action is to wait for the external party
C22_Witness ==
    \E c \in InsightReturns :
        /\ \A b \in LastBodies : Contains(Lower(b), "waiting for")
        /\ c.ret.conversation_insights.response_needed
        /\ c.ret.conversation_insights.next_action = "Waiting on external party"
        /\ c.ret.conversation_insights.waiting_on # None

\* what the code gives: with a waiting phrase in the last message the next
\* action is 'Waiting on external party' and waiting_on is set, whether or not
\* a response is needed; without one, a needed response gives 'Response required'
NextActionAsCoded ==
    \A c \in InsightReturns :
        LET insights == c.ret.conversation_insights
        IN  /\ (\A b \in LastBodies : MentionsWaiting(b)) =>
                  /\ insights.next_action = "Waiting on external party"
                  /\ insights.waiting_on # None
            /\ (\A b \in LastBodies : ~MentionsWaiting(b)) /\ insights.response_needed =>
                  /\ StartsWith(insights.next_action, "Response required")
                  /\ insights.waiting_on = None

(***************************************************************************)
(* The response signal of the priority score and of the insights.          *)
(***************************************************************************)
\* the priority of the record holds the 'Response/action required' factor
HasResponseFactor(c) ==
    \E i \in 1..Len(c.ret.priority.factors) :
        c.ret.priority.factors[i] = "Response/action required"

\* C23: for every non-empty thread the 'Response/action required' factor is
\* in the priority score exactly when response_needed of the conversation
\* insights is true.
C23_ResponseSignalsAgree ==
    \A c \in PriorityReturns :
        HasResponseFactor(c) <=> c.ret.conversation_insights.response_needed

\* a last message that says 'please send', a phrase of the insights' list only:
\* a response is needed and the score has no response factor
C23_Witness ==
    \E c \in PriorityReturns :
        /\ \A b \in LastBodies : Contains(Lower(b), "please send") /\ ~Contains(b, "?")
        /\ c.ret.conversation_insights.response_needed
        /\ ~HasResponseFactor(c)

\* what the code gives: the factor implies response_needed, and it is there
\* exactly when the last body holds '?', 'please confirm', 'can you' or
\* 'need your'
ResponseFactorAsCoded ==
    \A c \in PriorityReturns :
        /\ HasResponseFactor(c) => c.ret.conversation_insights.response_needed
        /\ (\A b \in LastBodies :
                \E w \in {"?", "please confirm", "can you", "need your"} : Contains(Lower(b), w))
              => HasResponseFactor(c)
        /\ (\A b \in LastBodies :
                \A w \in {"?", "please confirm", "can you", "need your"} : ~Contains(Lower(b), w))
              => ~HasResponseFactor(c)

(***************************************************************************)
(* Due dates and the message that asks for them.                           *)
(***************************************************************************)
\* the timestamps of the messages scanned by the call whose lines give the action
TriggeringTimes(action) ==
    LET scanned == LastN(triage.sorted_emails, 5)
    IN  { scanned[i].received_time :
            i \in { j \in 1..Len(scanned) :
                      /\ scanned[j].received_time # NoneDt
                      /\ action \in Range(lines_actions(scanned[j], Split(scanned[j].body, "\n"), triage.clock)) } }

\* C24: every due date of a triage action is not earlier than the timestamp of
\* the message whose line triggered it minus a fixed tolerance (here a week):
\* a year of two digits, or a day and month already past, never gives a due
\* date months or years before the message.
C24_DueNotBeforeMessage ==
    TriageBuilt =>
        \A k \in 1..Len(triage.result.actions) :
            LET action == triage.result.actions[k]
            IN  action.due_date # NoneDt =>
                    \A t \in TriggeringTimes(action) : action.due_date >= t - 7 * 24

\* a line with the date 05.12.26: the due date of its action lies more than a
\* thousand years before the message
C24_Witness ==
    /\ TriageBuilt
    /\ Len(triage.result.actions) = 1
    /\ Contains(triage.result.actions[1].description, "05.12.26")
    /\ triage.result.actions[1].due_date # NoneDt
    /\ \E t \in TriggeringTimes(triage.result.actions[1]) :
          triage.result.actions[1].due_date < t - 1000 * 366 * 24

\* a line with the day and month 01.10, read in November: the due date of its
\* action lies more than four weeks before the message
PastDayAndMonth ==
    /\ TriageBuilt
    /\ Len(triage.result.actions) = 1
    /\ Contains(triage.result.actions[1].description, "01.10")
    /\ ~Contains(triage.result.actions[1].description, "2026")
    /\ triage.result.actions[1].due_date # NoneDt
    /\ \E t \in TriggeringTimes(triage.result.actions[1]) :
          triage.result.actions[1].due_date < t - 28 * 24

(***************************************************************************)
(* The urgency score of one message.                                       *)
(***************************************************************************)
\* the entries of the keyword table whose keyword occurs in the lower-cased text
MatchedEntries(text) == {e \in Range(urgent_keywords) : Contains(Lower(text), e.keyword)}

RECURSIVE SumWeights(_)
SumWeights(entries) ==
    IF entries = {} THEN 0
    ELSE LET e == CHOOSE x \in entries : TRUE
         IN  e.weight + SumWeights(entries \ {e})

\* the words of the text (runs of letters, digits and '_', each as long as it
\* can be) that are three or more capital letters
CapsWordStarts(text) ==
    { i \in 1..Len(text) :
        /\ IsWordChar(At(text, i))
        /\ i = 1 \/ ~IsWordChar(At(text, i - 1))
        /\ LET rest == {j \in i..Len(text) : ~IsWordChar(At(text, j))}
               end == IF rest = {} THEN Len(text)
                      ELSE (CHOOSE j \in rest : \A m \in rest : j <= m) - 1
           IN  /\ end - i + 1 >= 3
               /\ \A m \in i..end : At(text, m) \in UpperChars }

\* 15 for two or more of the five high-impact keywords, 5 for one, 0 for none
Synergy(text) ==
    LET found == {w \in {"asap", "urgent", "immediately", "critical", "emergency"} :
                     Contains(Lower(text), w)}
    IN  IF Cardinality(found) >= 2 THEN 15 ELSE IF Cardinality(found) = 1 THEN 5 ELSE 0

\* the four terms of the score
UrgencySum(text) ==
    SumWeights(MatchedEntries(text))
    + Min(3 * Count(text, "!"), 15)
    + Min(3 * Cardinality(CapsWordStarts(text)), 15)
    + Synergy(text)

\* C25: the urgency score of a text is min(100, the weights of the table
\* keywords that occur in the lower-cased text, each once, + min(3 * number of
\* '!', 15) + min(3 * number of all-caps words of 3 or more letters, 15) +
\* synergy), and keywords_found lists exactly the matched keywords, each once.
C25_UrgencyScore ==
    urgency # NoResult =>
        /\ urgency.score = Min(100, UrgencySum(urgency_text))
        /\ Range(urgency.keywords_found) = {e.keyword : e \in MatchedEntries(urgency_text)}
        /\ Len(urgency.keywords_found) = Cardinality(MatchedEntries(urgency_text))

\* a text with two high-impact keywords, one of them 'emergency', with an
\* exclamation mark and a word in capitals, in which 'late' occurs twice: 'late'
\* is listed once, and the score is below the cap
C25_Witness ==
    /\ urgency # NoResult
    /\ Contains(Lower(urgency_text), "emergency")
    /\ Synergy(urgency_text) = 15
    /\ Count(urgency_text, "!") >= 1
    /\ CapsWordStarts(urgency_text) # {}
    /\ Contains(urgency_text, "late emergency!")
    /\ Contains(urgency_text, "escalate")
    /\ Cardinality({i \in 1..Len(urgency.keywords_found) : urgency.keywords_found[i] = "late"}) = 1
    /\ urgency.score < 100

\* the sum passes 100 and the score is 100
UrgencySumCapped ==
    /\ urgency # NoResult
    /\ UrgencySum(urgency_text) > 100
    /\ urgency.score = 100

\* more than five exclamation marks and more than five words in capitals: 15
\* points for each, and no keyword
UrgencyMarksCapped ==
    /\ urgency # NoResult
    /\ Count(urgency_text, "!") > 5
    /\ Cardinality(CapsWordStarts(urgency_text)) > 5
    /\ urgency.score = 30

(***************************************************************************)
(* The number of sentences of the extractive summary.                      *)
(***************************************************************************)
\* clamp(round(0.2 * n), 2, 6); 0.2 * n is never half-way between two integers
RoundedK(n) == Min(6, Max(2, (2 * n + 5) \div 10))

\* C26: for N >= 1 deduplicated candidate sentences the extractive summarizer
\* returns exactly min(k, N) sentences, k = clamp(round(0.2 * N), 2, 6).
C26_SummaryLength ==
    (extracted # NoResult /\ DistinctSentences # {}) =>
        Len(extracted.value)
            = Min(RoundedK(Cardinality(DistinctSentences)), Cardinality(DistinctSentences))

\* 18 candidate sentences, 0.2 * 18 = 3.6: three sentences are returned
C26_Witness ==
    /\ extracted # NoResult
    /\ Cardinality(DistinctSentences) = 18
    /\ Len(extracted.value) = 3

\* what the code gives: k = clamp(int(0.2 * N), 2, 6), the fraction cut off, and
\* min(k, N) sentences
SummaryLengthAsCoded ==
    (extracted # NoResult /\ DistinctSentences # {}) =>
        Len(extracted.value)
            = Min(Min(6, Max(2, Cardinality(DistinctSentences) \div 5)),
                  Cardinality(DistinctSentences))

(***************************************************************************)
(* The order of the rules of _parse_due_date.                              *)
(***************************************************************************)
\* the date at 17:00 that an explicit date rule yields on the lower-cased text:
\* a set with the date, empty when the rule does not match or the numbers are
\* no calendar date
DmyRuleDate ==
    LET m == DmySearch(Lower(due_text))
    IN  IF ~m.matched THEN {}
        ELSE LET y == IF m.g3 # None THEN ToInt(m.g3) ELSE YearOf(due_base)
             IN  IF ValidDate(y, ToInt(m.g2), ToInt(m.g1))
                 THEN {DateTime(y, ToInt(m.g2), ToInt(m.g1), 17)} ELSE {}

IsoRuleDate ==
    LET m == IsoSearch(Lower(due_text))
    IN  IF ~m.matched THEN {}
        ELSE IF ValidDate(ToInt(m.g1), ToInt(m.g2), ToInt(m.g3))
             THEN {DateTime(ToInt(m.g1), ToInt(m.g2), ToInt(m.g3), 17)} ELSE {}

\* the date of the first weekday name, in the order monday .. sunday, that the
\* text holds: the next such day after the base, at the hour of the base
WeekdayRuleDate ==
    IF NamedWeekdays = {} THEN {}
    ELSE LET d == CHOOSE x \in NamedWeekdays : \A z \in NamedWeekdays : x <= z
         IN  {t \in (due_base + 1)..(due_base + 7 * 24) :
                 Weekday(t) = d /\ HourOf(t) = HourOf(due_base)}

\* the result that the rules, in the order 'eod', 'tomorrow', dd/mm[/yyyy],
\* yyyy-mm-dd, weekday name, give: the first that yields a date decides
RuleOrderResult ==
    IF Contains(Lower(due_text), "eod") THEN {due_base - HourOf(due_base) + 17}
    ELSE IF Contains(Lower(due_text), "tomorrow") THEN {due_base + 24}
    ELSE IF DmyRuleDate # {} THEN DmyRuleDate
    ELSE IF IsoRuleDate # {} THEN IsoRuleDate
    ELSE WeekdayRuleDate

\* C27: _parse_due_date tries its rules in the order 'eod', 'tomorrow',
\* explicit dd/mm[/yyyy] date, yyyy-mm-dd date, weekday name, and the first
\* rule that matches and yields a valid date decides; an explicit date that is
\* no calendar date does not raise and is discarded, the later rules are still
\* tried, and the result is null when no rule yields a date.
C27_RuleOrder ==
    (due_text # NotCalled /\ due # NoResult) =>
        /\ ~IsRaised(due)
        /\ RuleOrderResult = {} => due.value = NoneDt
        /\ RuleOrderResult # {} => due.value \in RuleOrderResult

\* 31 February is discarded and the weekday named after it decides
C27_Witness ==
    /\ due_text = "please deliver by 31.02.2026 or on friday"
    /\ due_base = DateTime(2026, 11, 2, 9)
    /\ due # NoResult
    /\ due.value = DateTime(2026, 11, 6, 9)

\* a date that is no calendar date and nothing else: the result is null
InvalidDateAlone ==
    /\ due_text = "please deliver by 31.02.2026"
    /\ due # NoResult
    /\ due.value = NoneDt

\* '2026-11-25': the dd/mm rule matches '11-25', which is no date, and the
\* yyyy-mm-dd rule decides
IsoAfterInvalidDmy ==
    /\ due_text = "please ship 2026-11-25"
    /\ due # NoResult
    /\ due.value = DateTime(2026, 11, 25, 17)

\* '2026-11-05': the dd/mm rule matches '11-05' and decides, 11 May of the year
\* of the base
DmyInsideIso ==
    /\ due_text = "please ship 2026-11-05, a thursday"
    /\ due # NoResult
    /\ due.value = DateTime(2026, 5, 11, 17)

(***************************************************************************)
(* The length of the sentences of the extractive summary.                  *)
(***************************************************************************)
\* C28: every sentence returned by the extractive summarizer has between 40
\* and 220 characters, a sentence that comes from a subject as well as one
\* that comes from a body.
C28_SentenceLength ==
    extracted # NoResult =>
        \A i \in 1..Len(extracted.value) :
            40 <= Len(extracted.value[i]) /\ Len(extracted.value[i]) <= 220

\* the subject of a message, 17 characters long, is a sentence of the summary
C28_Witness ==
    /\ extracted # NoResult
    /\ thread_emails # <<>>
    /\ \E i \in 1..Len(extracted.value) :
          /\ extracted.value[i] = Strip(thread_emails[1].subject)
          /\ Len(extracted.value[i]) = 17

\* what the code gives: the sentences of the summary that are not the subject
\* of a message have between 40 and 220 characters
BodySentenceLength ==
    extracted # NoResult =>
        \A i \in 1..Len(extracted.value) :
            \/ \E j \in 1..Len(thread_emails) : extracted.value[i] = Strip(thread_emails[j].subject)
            \/ (40 <= Len(extracted.value[i]) /\ Len(extracted.value[i]) <= 220)

(***************************************************************************)
(* The kinds of next action.                                               *)
(***************************************************************************)
\* the calls that returned the insights of _extract_conversation_insights, for
\* an empty thread too
ExtractedInsights ==
    {c.ret.conversation_insights :
        c \in {r \in Returns : "conversation_insights" \in DOMAIN r.ret /\ r.ret.method = "rule_based"}}

\* text is 'Follow up - no activity for N days' with a number N
IsFollowUp(text) ==
    \E n \in 0..40 : text = "Follow up - no activity for " \o IntStr(n) \o " days"

\* C29: for a non-empty thread next_action of the insights is not null and is
\* 'Response required ...', 'Waiting on external party', 'Follow up - no
\* activity for N days' or 'Monitor - no immediate action required', never
\* 'Review and respond to last email'; only for an empty thread is it null.
C29_NextActionKinds ==
    \A insights \in ExtractedInsights :
        /\ thread_emails # <<>> =>
              /\ insights.next_action # None
              /\ \/ StartsWith(insights.next_action, "Response required")
                 \/ insights.next_action = "Waiting on external party"
                 \/ IsFollowUp(insights.next_action)
                 \/ insights.next_action = "Monitor - no immediate action required"
              /\ insights.next_action # "Review and respond to last email"
        /\ thread_emails = <<>> => insights.next_action = None

\* a last message more than 7 whole days old that asks a question: the next
\* action is 'Response required ...', not the follow-up and not 'Review and
\* respond to last email'
C29_Witness ==
    \E c \in InsightReturns :
        /\ AgeDays(c) > 7
        /\ c.ret.conversation_insights.response_needed
        /\ StartsWith(c.ret.conversation_insights.next_action, "Response required")

\* the insights of the empty thread: no next action
EmptyThreadInsights ==
    /\ thread_emails = <<>>
    /\ \E insights \in ExtractedInsights : insights.next_action = None

(***************************************************************************)
(* The AI flag of a summarizer.                                            *)
(***************************************************************************)
\* the summarizer was built with use_ai=False
BuiltWithoutAi == construction # NoResult /\ construction.use_ai = <<FALSE>>

\* the model load was skipped or failed
NoModelLoaded ==
    /\ construction # NoResult
    /\ \/ construction.use_ai = <<FALSE>>
       \/ construction.use_ai = <<>> /\ ~construction.USE_AI_SUMMARIZATION
       \/ construction.load = "raises"

\* every message has a timestamp and the metadata has every key
WellFormedInput ==
    /\ \A i \in 1..Len(thread_emails) : thread_emails[i].received_time # NoneDt
    /\ metadata # NoMeta
    /\ MetaKeys \subseteq DOMAIN metadata

\* the state part of C30
AiFlagState ==
    /\ use_ai => summarizer # None
    /\ NoModelLoaded => (use_ai = FALSE /\ summarizer = None)
    /\ BuiltWithoutAi =>
          \A i \in 1..Len(calls) :
              /\ calls[i].ai = None
              /\ ~IsRaised(calls[i].ret) =>
                    /\ calls[i].ret.method \in {"rule_based", "fallback"}
                    /\ WellFormedInput => calls[i].ret.method = "rule_based"
              /\ WellFormedInput => ~IsRaised(calls[i].ret)

\* C30: after construction use_ai = true implies that the summarizer model is
\* not null (a failed or skipped load leaves use_ai = false and summarizer =
\* None), no call of summarize_thread changes use_ai or summarizer, and a
\* summarizer built with use_ai=False never invokes the abstractive model:
\* every record it returns has method 'rule_based' or 'fallback', and
\* 'rule_based' for well-formed input.
C30_AiFlag ==
    /\ [](construction # NoResult => AiFlagState)
    /\ [][use_ai' = use_ai /\ summarizer' = summarizer]_vars

\* a summarizer asked for AI whose model load raised: it has use_ai false and no
\* pipeline, and its call returned the rule-based record without the model
C30_Witness ==
    /\ construction # NoResult
    /\ construction.use_ai = <<TRUE>> /\ construction.load = "raises"
    /\ use_ai = FALSE /\ summarizer = None
    /\ WellFormedInput
    /\ \E i \in 1..Len(calls) :
          /\ calls[i].ai = None
          /\ ~IsRaised(calls[i].ret)
          /\ calls[i].ret.method = "rule_based"

\* a summarizer built with use_ai=False, with config.USE_AI_SUMMARIZATION set
\* and a model that would load: the call on a thread without a timestamp
\* returned the fallback record
BuiltWithoutAiFallback ==
    /\ BuiltWithoutAi
    /\ construction.USE_AI_SUMMARIZATION /\ construction.load = "loaded"
    /\ ~WellFormedInput
    /\ \E i \in 1..Len(calls) : ~IsRaised(calls[i].ret) /\ calls[i].ret.method = "fallback"

====
